---- MODULE Spec2Model ----
(***************************************************************************)
(* Recipe Suggester backend (python_backend): the retry wrappers of        *)
(* action.py and perception.py, the four external gateways of action.py    *)
(* and the reasoning gateway of perception.py, as one state machine.       *)
(*                                                                         *)
(* One gateway invocation is in progress at a time (the backend handles a  *)
(* request synchronously).  An invocation starts from "idle" with the      *)
(* gateway's entry action (credential check), runs the retry loop one      *)
(* iteration per step (the provider's answer is the environment's choice), *)
(* and ends in "done" with the value the gateway hands to its caller.      *)
(*                                                                         *)
(* The three pipelines of decision_making.py behind the endpoints of       *)
(* main.py are a second state machine over the same credential table: a    *)
(* request is processed in two steps, the reasoning call and the           *)
(* downstream gateway call, each gateway call taken as a whole (its result *)
(* is any result the gateway's retry loop can end with).                   *)
(*                                                                         *)
(* The helpers that only compute (the line formatting of send-list,        *)
(* utils.normalize_ingredient, utils.find_missing_ingredients and          *)
(* action.generate_fallback_ingredients) each have a specification of      *)
(* their own: `request` holds the arguments of one call, drawn from a      *)
(* bounded set, and the single action stores what the call returns.  Names *)
(* and titles are Python strings taken character by character.             *)
(***************************************************************************)
EXTENDS Integers, Sequences, FiniteSets, TLC

VARIABLES
    API_KEYS,        \* memory.API_KEYS: the process-wide credential table
    pc,              \* position of the running invocation
    gw,              \* the gateway that is running ("none" when idle)
    retries,         \* the wrapper's local `retries`
    last_exception,  \* the wrapper's local `last_exception`
    calls,           \* outbound requests made by this invocation, in order
    sleeps,          \* time.sleep() calls of this invocation, in milliseconds
    wres,            \* how the retry wrapper ended (returned / raised)
    outcome,         \* what the gateway handed to its caller
    request,         \* the request body of the endpoint call being processed
    step,            \* position of the pipeline processing `request`
    log_failure,     \* the step of the prompt/response log that failed, if any
    llm,             \* the pipeline's local `llm_result` (or what the call raised)
    api_result,      \* the pipeline's local `api_result` / `result`
    formatted_ingredients,  \* process_send_list's local `formatted_ingredients`
    invoked,         \* the gateways and helpers the pipeline has called, in order
    http_response    \* the HTTP response of the endpoint

gateway_vars == <<pc, gw, retries, last_exception, calls, sleeps, wres, outcome>>

pipeline_vars ==
    <<request, step, log_failure, llm, api_result, formatted_ingredients, invoked,
      http_response>>

vars == <<API_KEYS, gateway_vars, pipeline_vars>>

----------------------------------------------------------------------------
(* memory.py *)

MAX_LLM_RETRIES == 2
MAX_API_RETRIES == 1

None == "None"

KeyNames == {"spoonacular", "gemini", "telegram_bot", "sendgrid", "sendgrid_sender"}

\* A credential is either unset (None) or a non-empty secret.
KeyValues == {None, "secret"}

\* Python truthiness of an Optional[str]: `not api_key`.
Not(v) == v = None \/ v = ""

get_api_key(key_name) == API_KEYS[key_name]

\* ERROR_MESSAGES[key] as the text before and after the "{}" placeholder.
ERROR_MESSAGES(key) ==
    CASE key = "MISSING_API_KEY"   -> <<"", " API key not configured in backend environment.">>
      [] key = "SPOONACULAR_ERROR" -> <<"Error communicating with Spoonacular: ", "">>
      [] key = "GEMINI_ERROR"      -> <<"Error communicating with Gemini API: ", "">>
      [] key = "TELEGRAM_ERROR"    -> <<"Error sending Telegram message: ", "">>
      [] key = "SENDGRID_ERROR"    -> <<"Error sending email via SendGrid: ", "">>
      [] key = "LLM_FAILURE"       -> <<"LLM analysis failed: ", "">>
      [] OTHER                     -> <<"An unexpected backend error occurred: ", "">>

\* message.format(detail) if detail else message
get_error_message(key, detail) ==
    IF detail = ""
    THEN ERROR_MESSAGES(key)[1] \o "{}" \o ERROR_MESSAGES(key)[2]
    ELSE ERROR_MESSAGES(key)[1] \o detail \o ERROR_MESSAGES(key)[2]

----------------------------------------------------------------------------
(* The environment: what one outbound request can come back with.          *)

\* requests raises these before any response exists.
TransportErrors == {"ConnectionError", "Timeout"}

\* HTTP statuses the recipe / chat / email providers answer with.
ApiStatuses == {200, 202, 401, 403, 404, 429, 500}

\* The shape of a response body, per provider, as far as the code reads it.
ApiBodies(g) ==
    CASE g = "recipes"  -> {"bad_json", "null", "list", "list_malformed", "empty_list"}
      [] g = "details"  -> {"bad_json", "null", "dict_no_ext", "dict_ext_valid",
                            "dict_ext_invalid", "dict_ext_empty"}
      [] g = "telegram" -> {"bad_json", "list", "ok_true", "ok_false", "ok_absent",
                            "chat_not_found", "bot_blocked"}
      [] g = "sendgrid" -> {"bad_json", "no_errors", "errors_other",
                            "errors_valid_email", "errors_permission"}

\* One attempt's answer: net = "ok" carries a response, otherwise requests raised.
Reply(net, status, body) == [net |-> net, status |-> status, body |-> body]

ApiReplies(g) ==
    {Reply(n, 0, "") : n \in TransportErrors}
        \cup {Reply("ok", s, b) : s \in ApiStatuses, b \in ApiBodies(g)}

\* Which exception class response.json() raises on an unparseable body depends on
\* the installed requests version: requests.exceptions.JSONDecodeError (a
\* RequestException) or the json module's ValueError subclass.
JsonErrors == {"RequestsJSONDecodeError", "JSONDecodeError"}

\* e.response of an exception raised without a response is None.
NoResponse == Reply("none", 0, "")

\* An exception value: its class, str(e), and the response attached to it.
Exc(type, msg, response) == [type |-> type, msg |-> msg, response |-> response]

NoException == Exc("", "", NoResponse)

\* response.json() on an unparseable body
JsonException(jsonErr) == Exc(jsonErr, "Expecting value: line 1 column 1 (char 0)", NoResponse)

\* .get() on a parsed body that is not an object
AttributeError == Exc("AttributeError", "'list' object has no attribute 'get'", NoResponse)

\* `x in None`: the membership test on a parsed body that is JSON null
TypeErrorNotIterable ==
    Exc("TypeError", "argument of type 'NoneType' is not iterable", NoResponse)

IsRequestException(e) ==
    e.type \in TransportErrors \cup {"HTTPError", "RequestException", "RequestsJSONDecodeError"}

Str(e) == e.msg

----------------------------------------------------------------------------
(* action._make_request_with_retry *)

\* (mutant of raise_for_status: anything but 200 is an error)
raise_for_status_not_200(reply) == reply.status # 200

\* response.raise_for_status(): HTTPError for 4xx and 5xx.
raise_for_status(reply) == reply.status >= 400

\* The exception one attempt ends with (requests.request or raise_for_status).
AttemptException(reply) ==
    IF reply.net = "ok"
    THEN Exc("HTTPError", ToString(reply.status) \o " Error for url", reply)
    ELSE Exc(reply.net, reply.net \o " for url", NoResponse)

AttemptSucceeds(reply) == reply.net = "ok" /\ ~raise_for_status(reply)

\* 2 ** n as Python computes it for any integer n, times `unit`
PowerOfTwoTimes(n, unit) == IF n >= 0 THEN (2 ^ n) * unit ELSE unit \div (2 ^ (0 - n))

\* wait_time = (2 ** (retries - 1)) * 0.5 seconds, in milliseconds
api_wait_time(r) == PowerOfTwoTimes(r - 1, 500)

NoResult == [kind |-> "none"]
Returned(reply) == [kind |-> "return", response |-> reply]
Raised(e) == [kind |-> "raise", exc |-> e]

\* (mutant of reraise: the exception kept from the attempt before is raised)
reraise_previous(previous, e) == IF previous = NoException THEN e ELSE previous

\* raise e: the exception just caught, whatever last_exception held before it
reraise(previous, e) == e

----------------------------------------------------------------------------
(* What a gateway function does with the wrapper's result: the body of its *)
(* try block ends by returning a value or by throwing; the except clauses  *)
(* turn a thrown exception into a returned value.                          *)

Ret(v) == [kind |-> "returned", value |-> v]
Throw(e) == [kind |-> "raised", exc |-> e]

\* The arguments of the gateway calls (one representative request).
Request == [recipe_id |-> "716429", chat_id |-> "42", to_email |-> "user@example.com"]

\* status_code = getattr(e.response, 'status_code', 500) if hasattr(e, 'response') else 500
status_code_of(e) == IF e.response.net = "ok" THEN e.response.status ELSE 500

StatusDetail(e) == "Status " \o ToString(status_code_of(e)) \o ": " \o Str(e)

\* response.json(): the parsed body, or the JSON error of the installed library.
JsonFails(reply) == reply.body = "bad_json"

(* action.fetch_spoonacular_recipes, lines 60-74 *)
recipes_error_detail(e) ==
    IF status_code_of(e) = 401 \/ status_code_of(e) = 403
    THEN "Authentication failed (Invalid API Key?)"
    ELSE IF status_code_of(e) = 429
    THEN "API rate limit exceeded"
    ELSE StatusDetail(e)

\* response.json() of a parseable body: JSON null parses to None
recipes_data(body) == IF body = "null" THEN None ELSE body

recipes_try(w, jsonErr) ==
    IF w.kind = "raise" THEN Throw(w.exc)
    ELSE IF JsonFails(w.response) THEN Throw(JsonException(jsonErr))
    ELSE Ret([data |-> recipes_data(w.response.body), error |-> None])

recipes_except(t) ==
    IF t.kind = "returned" THEN t
    ELSE IF IsRequestException(t.exc)
    THEN Ret([data |-> None,
              error |-> get_error_message("SPOONACULAR_ERROR", recipes_error_detail(t.exc))])
    ELSE Ret([data |-> None, error |-> get_error_message("GENERAL_ERROR", Str(t.exc))])

fetch_spoonacular_recipes(w, jsonErr) == recipes_except(recipes_try(w, jsonErr))

(* action.fetch_spoonacular_details, lines 87-115 *)
details_error_detail(e) ==
    IF status_code_of(e) = 401 \/ status_code_of(e) = 403
    THEN "Authentication failed (Invalid API Key?)"
    ELSE IF status_code_of(e) = 404
    THEN "Recipe ID " \o Request.recipe_id \o " not found"
    ELSE IF status_code_of(e) = 429
    THEN "API rate limit exceeded"
    ELSE StatusDetail(e)

\* The pydantic conversion of extendedIngredients succeeds only on well-formed
\* entries; on failure the raw list is kept.
details_data(body) ==
    IF body \in {"dict_ext_valid", "dict_ext_empty"}
    THEN body \o ":SpoonacularIngredient"
    ELSE body

\* (mutant of details_try: a failed validation is reported next to the raw data)
details_try_reports_validation(w, jsonErr) ==
    IF w.kind = "raise" THEN Throw(w.exc)
    ELSE IF JsonFails(w.response) THEN Throw(JsonException(jsonErr))
    ELSE IF w.response.body = "null" THEN Throw(TypeErrorNotIterable)
    ELSE IF w.response.body = "dict_ext_invalid"
    THEN Ret([data |-> details_data(w.response.body),
              error |-> get_error_message("GENERAL_ERROR", "validation error")])
    ELSE Ret([data |-> details_data(w.response.body), error |-> None])

details_try(w, jsonErr) ==
    IF w.kind = "raise" THEN Throw(w.exc)
    ELSE IF JsonFails(w.response) THEN Throw(JsonException(jsonErr))
    ELSE IF w.response.body = "null" THEN Throw(TypeErrorNotIterable)
    ELSE Ret([data |-> details_data(w.response.body), error |-> None])

details_except(t) ==
    IF t.kind = "returned" THEN t
    ELSE IF IsRequestException(t.exc)
    THEN Ret([data |-> None,
              error |-> get_error_message("SPOONACULAR_ERROR", details_error_detail(t.exc))])
    ELSE Ret([data |-> None, error |-> get_error_message("GENERAL_ERROR", Str(t.exc))])

fetch_spoonacular_details(w, jsonErr) == details_except(details_try(w, jsonErr))

(* action.send_telegram_message, lines 129-154 *)
\* (mutant of telegram_ok: only an explicit ok = false counts as failure)
telegram_ok_unless_false(body) == body \in {"ok_true", "ok_absent"}

\* response_data.get("ok") is truthy
telegram_ok(body) == body = "ok_true"

\* specific_error, from the payload's description and error_code
telegram_specific_error(body) ==
    CASE body = "chat_not_found" -> "Chat ID '" \o Request.chat_id \o "' not found or invalid."
      [] body = "bot_blocked"    -> "Bot was blocked by the user."
      [] body = "ok_false"       -> "Bad Request: message text is empty"
      [] OTHER                   -> "Unknown Telegram error"

telegram_error_detail(e) ==
    IF status_code_of(e) = 401 \/ status_code_of(e) = 403
    THEN "Authentication failed (Invalid Bot Token?)"
    ELSE StatusDetail(e)

telegram_try(w, jsonErr) ==
    IF w.kind = "raise" THEN Throw(w.exc)
    ELSE IF JsonFails(w.response) THEN Throw(JsonException(jsonErr))
    ELSE IF w.response.body = "list" THEN Throw(AttributeError)
    ELSE IF telegram_ok(w.response.body)
    THEN Ret([success |-> TRUE, message |-> "Shopping list sent successfully via Telegram!"])
    ELSE Ret([success |-> FALSE,
              message |-> get_error_message("TELEGRAM_ERROR",
                                            telegram_specific_error(w.response.body))])

\* (mutant of telegram_except: no `except Exception` clause)
telegram_except_requests_only(t) ==
    IF t.kind = "returned" THEN t
    ELSE IF IsRequestException(t.exc)
    THEN Ret([success |-> FALSE,
              message |-> get_error_message("TELEGRAM_ERROR", StatusDetail(t.exc))])
    ELSE t

telegram_except(t) ==
    IF t.kind = "returned" THEN t
    ELSE IF IsRequestException(t.exc)
    THEN Ret([success |-> FALSE,
              message |-> get_error_message("TELEGRAM_ERROR", telegram_error_detail(t.exc))])
    ELSE Ret([success |-> FALSE, message |-> get_error_message("GENERAL_ERROR", Str(t.exc))])

send_telegram_message(w, jsonErr) == telegram_except(telegram_try(w, jsonErr))

(* action.send_sendgrid_email, lines 182-215 *)
\* error_detail of a response that is not 202 (lines 190-202)
sendgrid_response_detail(reply, sender_email) ==
    CASE reply.body = "errors_valid_email" ->
             "Invalid recipient email format '" \o Request.to_email \o "'."
      [] reply.body = "errors_permission" ->
             "Sender email '" \o sender_email
                 \o "' might not be verified or have sending permissions in SendGrid."
      [] reply.body = "errors_other" -> "SendGrid Error(s): bad request"
      [] OTHER -> "SendGrid returned status " \o ToString(reply.status)

sendgrid_error_detail(e) ==
    IF status_code_of(e) = 401 \/ status_code_of(e) = 403
    THEN "Authentication failed (Invalid API Key or Permissions?)"
    ELSE StatusDetail(e)

\* (mutant of sendgrid_try: every response the wrapper returns counts as sent)
sendgrid_try_any_response(w, sender_email) ==
    IF w.kind = "raise" THEN Throw(w.exc)
    ELSE Ret([success |-> TRUE, message |-> "Shopping list sent successfully via Email!"])

sendgrid_try(w, sender_email) ==
    IF w.kind = "raise" THEN Throw(w.exc)
    ELSE IF w.response.status = 202
    THEN Ret([success |-> TRUE, message |-> "Shopping list sent successfully via Email!"])
    ELSE Ret([success |-> FALSE,
              message |-> get_error_message("SENDGRID_ERROR",
                                            sendgrid_response_detail(w.response, sender_email))])

sendgrid_except(t) ==
    IF t.kind = "returned" THEN t
    ELSE IF IsRequestException(t.exc)
    THEN Ret([success |-> FALSE,
              message |-> get_error_message("SENDGRID_ERROR", sendgrid_error_detail(t.exc))])
    ELSE Ret([success |-> FALSE, message |-> get_error_message("GENERAL_ERROR", Str(t.exc))])

send_sendgrid_email(w, sender_email) == sendgrid_except(sendgrid_try(w, sender_email))

----------------------------------------------------------------------------
(* perception._call_gemini_api_with_retry and perception.run_llm_analysis *)

GeminiStatuses == {200, 400, 503}

\* Replies whose candidates[0].content.parts[0].text is a string, by the
\* [ERROR: X] tags the text carries.
GeminiTextBodies == {"text_no_tags", "text_error_tag", "text_empty_error_tag",
                     "text_invalid_ingredients", "text_preference_error"}

GeminiBodies == {"bad_json", "list", "blocked", "no_candidates", "candidates_malformed",
                 "text_not_string"} \cup GeminiTextBodies

GeminiReplies ==
    {Reply(n, 0, "") : n \in TransportErrors}
        \cup {Reply("ok", s, b) : s \in GeminiStatuses, b \in GeminiBodies}

\* (mutant of gemini_try: a blocked or candidate-less reply is a request error)
gemini_try_blocked_retryable(reply, jsonErr) ==
    IF reply.net # "ok" THEN Throw(Exc(reply.net, reply.net \o " for url", NoResponse))
    ELSE IF reply.status = 200
    THEN CASE reply.body = "bad_json" -> Throw(JsonException(jsonErr))
           [] reply.body = "list" -> Throw(AttributeError)
           [] reply.body \in {"blocked", "no_candidates"} ->
                  Throw(Exc("RequestException", "Gemini request blocked", NoResponse))
           [] OTHER -> Ret(reply)
    ELSE IF reply.body = "list" THEN Throw(AttributeError)
    ELSE Throw(Exc("RequestException", "Status " \o ToString(reply.status) \o ": error",
                   reply))

\* The try block of one loop iteration (lines 39-59): the reply data, or a throw.
gemini_try(reply, jsonErr) ==
    IF reply.net # "ok" THEN Throw(Exc(reply.net, reply.net \o " for url", NoResponse))
    ELSE IF reply.status = 200
    THEN CASE reply.body = "bad_json" -> Throw(JsonException(jsonErr))
           [] reply.body = "list" -> Throw(AttributeError)
           [] reply.body = "blocked" ->
                  Throw(Exc("Exception", "Gemini request blocked due to: SAFETY. Ratings: []",
                            NoResponse))
           [] reply.body = "no_candidates" ->
                  Throw(Exc("Exception", "Gemini response missing candidates.", NoResponse))
           [] OTHER -> Ret(reply)
    ELSE IF reply.body = "list" THEN Throw(AttributeError)
    ELSE Throw(Exc("RequestException", "Status " \o ToString(reply.status) \o ": error",
                   reply))

\* (mutant of llm_wait_time: the exponent is off by one)
llm_wait_time_doubled(r) == PowerOfTwoTimes(r, 1000)

\* wait_time = (2 ** (retries - 1)) * 1.0 seconds, in milliseconds
llm_wait_time(r) == PowerOfTwoTimes(r - 1, 1000)

\* (mutant of next_retries: the retry is not counted)
next_retries_stuck(r) == r

\* retries += 1
next_retries(r) == r + 1

\* if retries > MAX_..._RETRIES
api_retries_exceeded(r) == r > MAX_API_RETRIES
llm_retries_exceeded(r) == r > MAX_LLM_RETRIES

\* while retries <= MAX_..._RETRIES
api_loop_continues(r) == r <= MAX_API_RETRIES
llm_loop_continues(r) == r <= MAX_LLM_RETRIES

\* {"error": {"message": ...}}
ErrorStruct(message) == [kind |-> "error", message |-> message]

llm_exhausted_result(e) == ErrorStruct("LLM API failed after retries: " \o Str(e))
llm_other_exception_result(e) == ErrorStruct("LLM call failed: " \o Str(e))
llm_fallthrough_result(e) ==
    ErrorStruct("LLM API failed after " \o ToString(MAX_LLM_RETRIES) \o " retries: " \o Str(e))

(* perception.extract_reasoning_metadata, lines 192-199 *)

\* re.findall(r"\[ERROR:\s*(.*?)\]", text): the captured X of every tag, in text
\* order.  \s* eats the blanks after the colon, so a blank X is captured as "".
error_matches(body) ==
    CASE body = "text_error_tag" -> <<"Cannot determine ingredient quantities ">>
      [] body = "text_empty_error_tag" -> <<"">>
      [] body = "text_invalid_ingredients" ->
             <<"Invalid ingredients provided: xyzzy", "Ambiguous request",
               "Invalid ingredients provided: xyzzy">>
      [] body = "text_preference_error" ->
             <<"Contradictory preferences: vegan with chicken">>
      [] OTHER -> <<>>

\* match.strip()
strip(x) ==
    CASE x = "Cannot determine ingredient quantities " ->
             "Cannot determine ingredient quantities"
      [] OTHER -> x

\* The stripped tag texts in the order Python's sorted() puts them (code points).
ErrorVocabulary ==
    <<"", "Ambiguous request", "Cannot determine ingredient quantities",
      "Contradictory preferences: vegan with chicken",
      "Invalid ingredients provided: xyzzy">>

\* sorted(list(set(...)))
sorted(set) == SelectSeq(ErrorVocabulary, LAMBDA x : x \in set)

\* sep.join(parts)
RECURSIVE join(_, _)
join(sep, parts) ==
    IF parts = <<>> THEN ""
    ELSE IF Len(parts) = 1 THEN parts[1]
    ELSE parts[1] \o sep \o join(sep, Tail(parts))

\* 'preference' in e.lower()
mentions_preference(e) == e = "Contradictory preferences: vegan with chicken"

\* metadata.errors of a reply text
metadata_errors(body) ==
    LET matches == error_matches(body)
        errors == join("; ", sorted({strip(matches[i]) : i \in DOMAIN matches}))
        preference_errors == SelectSeq(matches, mentions_preference)
    IN IF preference_errors # <<>>
       THEN errors \o "; Preference-related errors: " \o join("; ", preference_errors)
       ELSE errors

\* LLMMetadata, as far as the pipelines read it
LLMMetadata(errors) == [errors |-> errors]

\* extract_reasoning_metadata(llm_response)
extract_reasoning_metadata(body) ==
    IF body \notin GeminiTextBodies
    THEN LLMMetadata("Invalid input type")
    ELSE LLMMetadata(metadata_errors(body))

\* build_reasoning_prompt(query, stage, context)
build_reasoning_prompt == "I want you to think step-by-step about this request."

\* LLMAnalysisResult(...)
LLMAnalysisResult(response_text, metadata, error, prompt) ==
    [response_text |-> response_text, metadata |-> metadata, error |-> error,
     prompt |-> prompt]

\* (mutant of promoted_error: the summary is promoted even when it is empty)
promoted_error_always(errors) == "LLM identified issues: " \o errors

\* run_llm_analysis, lines 271-272: if result.metadata.errors: result.error = ...
promoted_error(errors) ==
    IF errors # "" THEN "LLM identified issues: " \o errors ELSE None

\* run_llm_analysis, lines 260-280: the LLMAnalysisResult built from the raw reply
llm_result(w) ==
    IF w.kind = "error"
    THEN LLMAnalysisResult("[Fallback due to LLM API error: "
                               \o get_error_message("LLM_FAILURE", w.message) \o "]",
                           LLMMetadata(""),
                           get_error_message("LLM_FAILURE", w.message),
                           build_reasoning_prompt)
    ELSE IF w.response.body = "candidates_malformed"
    THEN LLMAnalysisResult("[Fallback due to response parsing error: "
                               \o get_error_message("LLM_FAILURE",
                                                    "Invalid response structure: 'content'")
                               \o "]",
                           LLMMetadata("Response parsing failed"),
                           get_error_message("LLM_FAILURE",
                                             "Invalid response structure: 'content'"),
                           build_reasoning_prompt)
    ELSE LET metadata == extract_reasoning_metadata(w.response.body)
         IN LLMAnalysisResult(w.response.body, metadata, promoted_error(metadata.errors),
                              build_reasoning_prompt)

\* run_llm_analysis, lines 216-221: the result without a credential
llm_missing_key_result ==
    LLMAnalysisResult("[Fallback due to missing API key]", LLMMetadata(""),
                      get_error_message("MISSING_API_KEY", "Gemini"), None)

----------------------------------------------------------------------------
(* The state machine *)

ApiGateways == {"recipes", "details", "telegram", "sendgrid"}

\* The step of run_llm_analysis that fails while it produces the dated log
\* artifact, if any.
LogFailures == {"none", "makedirs", "open_prompt_log", "write_prompt_log",
                "open_response_log", "write_response_log"}

NoRequest == [endpoint |-> "none"]

\* No endpoint call is being processed.
NoHttpResponse == [status_code |-> 0]

PipelineIdle ==
    /\ request = NoRequest
    /\ step = "idle"
    /\ log_failure = "none"
    /\ llm = NoResult
    /\ api_result = NoResult
    /\ formatted_ingredients = <<>>
    /\ invoked = <<>>
    /\ http_response = NoHttpResponse

\* No gateway invocation is in progress.
GatewayIdle ==
    /\ pc = "idle"
    /\ gw = "none"
    /\ retries = 0
    /\ last_exception = NoException
    /\ calls = <<>>
    /\ sleeps = <<>>
    /\ wres = NoResult
    /\ outcome = NoResult

Init ==
    /\ API_KEYS \in [KeyNames -> KeyValues]
    /\ GatewayIdle
    /\ PipelineIdle

\* The gateway returns (or throws) without entering the retry wrapper.
EndEarly(g, t) ==
    /\ gw' = g
    /\ pc' = "done"
    /\ outcome' = t
    /\ UNCHANGED <<API_KEYS, retries, last_exception, calls, sleeps, wres, pipeline_vars>>

\* The gateway calls its retry wrapper: retries = 0, last_exception = None.
EnterLoop(g, loop) ==
    /\ gw' = g
    /\ pc' = loop
    /\ retries' = 0
    /\ last_exception' = NoException
    /\ UNCHANGED <<API_KEYS, calls, sleeps, wres, outcome, pipeline_vars>>

MissingKey(service) == get_error_message("MISSING_API_KEY", service)

\* fetch_spoonacular_recipes, lines 36-38
FetchRecipes ==
    /\ pc = "idle"
    /\ IF Not(get_api_key("spoonacular"))
       THEN EndEarly("recipes", Ret([data |-> None, error |-> MissingKey("Spoonacular")]))
       ELSE EnterLoop("recipes", "api_loop")

\* fetch_spoonacular_details, lines 79-81
FetchDetails ==
    /\ pc = "idle"
    /\ IF Not(get_api_key("spoonacular"))
       THEN EndEarly("details", Ret([data |-> None, error |-> MissingKey("Spoonacular")]))
       ELSE EnterLoop("details", "api_loop")

\* send_telegram_message, lines 120-122
SendTelegram ==
    /\ pc = "idle"
    /\ IF Not(get_api_key("telegram_bot"))
       THEN EndEarly("telegram", Ret([success |-> FALSE, message |-> MissingKey("Telegram Bot")]))
       ELSE EnterLoop("telegram", "api_loop")

\* (mutant of sendgrid_precondition: the sender address is not checked)
sendgrid_precondition_key_only(api_key, sender_email) ==
    IF Not(api_key) THEN MissingKey("SendGrid") ELSE None

\* send_sendgrid_email, lines 160-166: the precondition failure, or None
sendgrid_precondition(api_key, sender_email) ==
    IF Not(api_key) THEN MissingKey("SendGrid")
    ELSE IF Not(sender_email)
    THEN "SendGrid sender email not configured in backend environment."
    ELSE None

SendSendgrid ==
    /\ pc = "idle"
    /\ LET failure == sendgrid_precondition(get_api_key("sendgrid"),
                                            get_api_key("sendgrid_sender"))
       IN IF failure # None
          THEN EndEarly("sendgrid", Ret([success |-> FALSE, message |-> failure]))
          ELSE EnterLoop("sendgrid", "api_loop")

\* os.makedirs("logs", exist_ok=True) failing
MakedirsError == Exc("OSError", "Permission denied: 'logs'", NoResponse)

\* run_llm_analysis, lines 213-249.  os.makedirs("logs") is outside any try
\* block; the writes to the log file are inside one and cannot end the call.
RunLlmAnalysis ==
    /\ pc = "idle"
    /\ \E failure \in LogFailures :
         IF Not(get_api_key("gemini"))
         THEN EndEarly("gemini", Ret(llm_missing_key_result))
         ELSE IF failure = "makedirs"
         THEN EndEarly("gemini", Throw(MakedirsError))
         ELSE EnterLoop("gemini", "llm_loop")

\* What the running gateway makes of the wrapper's result.
GatewayResult(g, w, jsonErr) ==
    CASE g = "recipes"  -> fetch_spoonacular_recipes(w, jsonErr)
      [] g = "details"  -> fetch_spoonacular_details(w, jsonErr)
      [] g = "telegram" -> send_telegram_message(w, jsonErr)
      [] g = "sendgrid" -> send_sendgrid_email(w, get_api_key("sendgrid_sender"))

\* One iteration of the while loop of _make_request_with_retry (lines 15-30); when
\* the wrapper returns or raises, the gateway function runs to its return.
MakeRequestWithRetry ==
    /\ pc = "api_loop"
    /\ \E reply \in ApiReplies(gw), jsonErr \in JsonErrors :
         LET e == AttemptException(reply)
             r == next_retries(retries)
             finish(w) == /\ wres' = w
                          /\ pc' = "done"
                          /\ outcome' = GatewayResult(gw, w, jsonErr)
         IN /\ calls' = Append(calls, reply)
            /\ IF AttemptSucceeds(reply)
               THEN /\ finish(Returned(reply))
                    /\ UNCHANGED <<retries, last_exception, sleeps>>
               ELSE /\ last_exception' = e
                    /\ retries' = r
                    /\ IF api_retries_exceeded(r)
                       THEN /\ finish(Raised(reraise(last_exception, e)))
                            /\ UNCHANGED sleeps
                       ELSE /\ sleeps' = Append(sleeps, api_wait_time(r))
                            /\ IF api_loop_continues(r)
                               THEN UNCHANGED <<pc, wres, outcome>>
                               ELSE finish(Raised(e))  \* line 30: raise last_exception
    /\ UNCHANGED <<API_KEYS, gw, pipeline_vars>>

\* One iteration of the while loop of _call_gemini_api_with_retry (lines 37-76);
\* when the wrapper returns, run_llm_analysis runs to its return.
CallGeminiApiWithRetry ==
    /\ pc = "llm_loop"
    /\ \E reply \in GeminiReplies, jsonErr \in JsonErrors :
         LET t == gemini_try(reply, jsonErr)
             r == next_retries(retries)
             finish(w) == /\ wres' = w
                          /\ pc' = "done"
                          /\ outcome' = Ret(llm_result(w))
         IN /\ calls' = Append(calls, reply)
            /\ IF t.kind = "returned"
               THEN /\ finish(Returned(reply))
                    /\ UNCHANGED <<retries, last_exception, sleeps>>
               ELSE IF IsRequestException(t.exc)
               THEN /\ last_exception' = t.exc
                    /\ retries' = r
                    /\ IF llm_retries_exceeded(r)
                       THEN /\ finish(llm_exhausted_result(t.exc))
                            /\ UNCHANGED sleeps
                       ELSE /\ sleeps' = Append(sleeps, llm_wait_time(r))
                            /\ IF llm_loop_continues(r)
                               THEN UNCHANGED <<pc, wres, outcome>>
                               ELSE finish(llm_fallthrough_result(t.exc))  \* line 76
               ELSE /\ finish(llm_other_exception_result(t.exc))
                    /\ UNCHANGED <<retries, last_exception, sleeps>>
    /\ UNCHANGED <<API_KEYS, gw, pipeline_vars>>

\* The caller takes the gateway's value; the next invocation starts afresh.
Return ==
    /\ pc = "done"
    /\ pc' = "idle"
    /\ gw' = "none"
    /\ retries' = 0
    /\ last_exception' = NoException
    /\ calls' = <<>>
    /\ sleeps' = <<>>
    /\ wres' = NoResult
    /\ outcome' = NoResult
    /\ UNCHANGED <<API_KEYS, pipeline_vars>>

Next ==
    \/ FetchRecipes
    \/ FetchDetails
    \/ SendTelegram
    \/ SendSendgrid
    \/ RunLlmAnalysis
    \/ MakeRequestWithRetry
    \/ CallGeminiApiWithRetry
    \/ Return

Spec == Init /\ [][Next]_vars

\* Every outbound request carries its own timeout (15 s, 30 s) and every sleep is
\* finite, so a running retry loop always takes its next step.
FairSpec ==
    Spec /\ WF_vars(MakeRequestWithRetry) /\ WF_vars(CallGeminiApiWithRetry)

----------------------------------------------------------------------------
(* Vocabulary of the properties *)

Loops == {"api_loop", "llm_loop"}

\* The wrapper of the running invocation has ended.
WrapperEnded == pc = "done" /\ wres # NoResult

maxRetries(g) == IF g = "gemini" THEN MAX_LLM_RETRIES ELSE MAX_API_RETRIES

\* An attempt succeeds when the provider answers with a non-error status
\* (recipe / delivery calls) or with status 200 and candidate text (reasoning).
Succeeded(g, reply) ==
    /\ reply.net = "ok"
    /\ IF g = "gemini"
       THEN reply.status = 200
                /\ reply.body \in GeminiTextBodies \cup {"text_not_string", "candidates_malformed"}
       ELSE reply.status < 400

LastCall == calls[Len(calls)]

----------------------------------------------------------------------------
(* C1: every invocation of a retry wrapper attempts the operation at least *)
(* once and at most maxRetries + 1 times, makes no attempt after a         *)
(* successful one, and always ends with a result or an error.              *)
C1_BoundedAttempts ==
    /\ [](/\ Len(calls) <= maxRetries(gw) + 1
          /\ WrapperEnded => Len(calls) >= 1 /\ wres.kind \in {"return", "raise", "error"}
          /\ \A i \in 1..(Len(calls) - 1) : ~Succeeded(gw, calls[i]))
    /\ (pc \in Loops) ~> (pc = "done")

\* A reasoning call that used all of its maxRetries + 1 = 3 attempts.
C1_Witness == WrapperEnded /\ gw = "gemini" /\ Len(calls) = MAX_LLM_RETRIES + 1

(* C2: a wrapper call whose operation fails k <= maxRetries times and then *)
(* succeeds returns the successful attempt's result and reports no error   *)
(* to its caller.                                                          *)
C2_SuccessAfterFailures ==
    WrapperEnded /\ Succeeded(gw, LastCall) => wres = Returned(LastCall)

\* The reasoning call failed twice and succeeded on the third attempt.
C2_Witness ==
    /\ WrapperEnded
    /\ gw = "gemini"
    /\ Len(calls) = 3
    /\ Succeeded(gw, LastCall)
    /\ wres.kind = "return"

\* Every one of the maxRetries + 1 attempts of the ended wrapper failed.
AllAttemptsFailed ==
    WrapperEnded /\ Len(calls) = maxRetries(gw) + 1 /\ ~Succeeded(gw, LastCall)

\* The error the final attempt of the reasoning call ended with.
FinalLlmErrors == {gemini_try(LastCall, j).exc : j \in JsonErrors}

(* C3, as claimed: when every attempt fails, both wrappers propagate the   *)
(* final attempt's error, unchanged in kind.                               *)
C3_Original ==
    AllAttemptsFailed =>
        /\ wres.kind = "raise"
        /\ IF gw = "gemini"
           THEN wres.exc \in FinalLlmErrors
           ELSE wres.exc = AttemptException(LastCall)

(* C3, amended: when every attempt fails, the error of the final attempt   *)
(* is what the caller gets; the recipe/delivery wrapper re-raises that     *)
(* exception unchanged, the reasoning wrapper instead returns an error     *)
(* structure whose message carries the final attempt's error text.         *)
C3_FinalErrorReported ==
    AllAttemptsFailed =>
        IF gw = "gemini"
        THEN /\ wres.kind = "error"
             /\ \E e \in FinalLlmErrors :
                  wres.message \in {"LLM API failed after retries: " \o e.msg,
                                    "LLM call failed: " \o e.msg}
        ELSE wres = Raised(AttemptException(LastCall))

\* A recipe search whose two attempts failed differently: 500, then 401.
C3_Witness ==
    /\ AllAttemptsFailed
    /\ gw = "recipes"
    /\ calls[1].status = 500
    /\ LastCall.status = 401
    /\ wres.kind = "raise"

(* C4, as claimed: an attempt of a recipe or delivery gateway answered     *)
(* with HTTP 401 or 403 is the last attempt of that invocation.            *)
C4_AuthNotRetried ==
    gw \in ApiGateways =>
        \A i \in 1..Len(calls) :
            calls[i].net = "ok" /\ calls[i].status \in {401, 403} => i = Len(calls)

RECURSIVE SumSeq(_)
SumSeq(q) == IF q = <<>> THEN 0 ELSE Head(q) + SumSeq(Tail(q))

(* C5: the wait before the n-th retry is 0.5 * 2^(n-1) s (recipe/delivery) *)
(* or 1.0 * 2^(n-1) s (reasoning); there is no wait after a successful or  *)
(* after the final failed attempt; the total wait of an invocation is at   *)
(* most 0.5 s, respectively 3 s.  Times in milliseconds.                   *)
C5_Backoff ==
    /\ \A n \in 1..Len(sleeps) :
         sleeps[n] = (IF gw = "gemini" THEN 1000 ELSE 500) * 2 ^ (n - 1)
    /\ pc \in Loops => Len(sleeps) = Len(calls)
    /\ WrapperEnded => Len(sleeps) = Len(calls) - 1
    /\ SumSeq(sleeps) <= (IF gw = "gemini" THEN 3000 ELSE 500)

\* A reasoning call that waited 1 s and then 2 s.
C5_Witness == WrapperEnded /\ gw = "gemini" /\ sleeps = <<1000, 2000>>

\* The credentials a gateway needs.
NeededKeys(g) ==
    CASE g \in {"recipes", "details"} -> {"spoonacular"}
      [] g = "telegram" -> {"telegram_bot"}
      [] g = "sendgrid" -> {"sendgrid", "sendgrid_sender"}
      [] g = "gemini" -> {"gemini"}
      [] OTHER -> {}

CredentialAbsent(g) == \E k \in NeededKeys(g) : API_KEYS[k] = None

NotConfigured(service) == service \o " API key not configured in backend environment."

(* C6: when a credential the gateway needs is absent (for email delivery:  *)
(* the API credential or the sender address), the gateway returns a        *)
(* missing-credential / precondition error and makes no outbound attempt,  *)
(* hence no retry and no wait.                                             *)
C6_MissingCredential ==
    CredentialAbsent(gw) =>
        /\ pc = "done"
        /\ calls = <<>>
        /\ sleeps = <<>>
        /\ wres = NoResult
        /\ outcome.kind = "returned"
        /\ CASE gw \in {"recipes", "details"} ->
                    outcome.value = [data |-> None, error |-> NotConfigured("Spoonacular")]
             [] gw = "telegram" ->
                    outcome.value = [success |-> FALSE, message |-> NotConfigured("Telegram Bot")]
             [] gw = "sendgrid" ->
                    /\ outcome.value.success = FALSE
                    /\ outcome.value.message =
                           IF API_KEYS["sendgrid"] = None
                           THEN NotConfigured("SendGrid")
                           ELSE "SendGrid sender email not configured in backend environment."
             [] gw = "gemini" ->
                    /\ outcome.value.error = NotConfigured("Gemini")
                    /\ outcome.value.response_text = "[Fallback due to missing API key]"

\* Email delivery with the API credential set and the sender address absent.
C6_Witness ==
    /\ pc = "done"
    /\ gw = "sendgrid"
    /\ API_KEYS["sendgrid"] # None
    /\ API_KEYS["sendgrid_sender"] = None

\* A chat delivery whose wrapper has ended.
ChatDeliveryEnded == WrapperEnded /\ gw = "telegram" /\ outcome.kind = "returned"

(* C7, as claimed: chat delivery reports success if and only if the        *)
(* provider's response payload has a true ok flag, whatever the HTTP       *)
(* status of that response.                                                *)
C7_Original ==
    ChatDeliveryEnded =>
        (outcome.value.success <=> (LastCall.net = "ok" /\ LastCall.body = "ok_true"))

(* C7, amended: chat delivery reports success if and only if the final     *)
(* response has a non-error HTTP status (below 400) and its payload has a  *)
(* true ok flag; ok absent or false is a failure even on HTTP 2xx, and a   *)
(* 4xx/5xx response is a failure whatever its payload says.                *)
C7_OkFlagOnNonErrorStatus ==
    ChatDeliveryEnded =>
        (outcome.value.success <=>
            (LastCall.net = "ok" /\ LastCall.status < 400 /\ LastCall.body = "ok_true"))

\* HTTP 200 with a payload that has no ok flag: reported as a failure.
C7_Witness ==
    /\ ChatDeliveryEnded
    /\ LastCall.net = "ok"
    /\ LastCall.status = 200
    /\ LastCall.body = "ok_absent"
    /\ outcome.value.success = FALSE

\* The messages email delivery formats with its SENDGRID_ERROR template.
SendgridErrorMessages ==
    {"Error sending email via SendGrid: " \o d :
        d \in {sendgrid_response_detail(r, API_KEYS["sendgrid_sender"]) :
                   r \in ApiReplies("sendgrid")}
              \cup {sendgrid_error_detail(AttemptException(r)) : r \in ApiReplies("sendgrid")}}

(* C8: email delivery reports success if and only if the final response    *)
(* has HTTP status exactly 202; any other status, 200 included, gives      *)
(* success = false with a formatted error message, and a 2xx response that *)
(* is not 202 is not retried.                                              *)
C8_EmailOnly202 ==
    WrapperEnded /\ gw = "sendgrid" =>
        /\ outcome.kind = "returned"
        /\ outcome.value.success <=> (LastCall.net = "ok" /\ LastCall.status = 202)
        /\ ~outcome.value.success => outcome.value.message \in SendgridErrorMessages
        /\ \A i \in 1..Len(calls) :
             calls[i].net = "ok" /\ calls[i].status \in 200..299 => i = Len(calls)

\* The provider answered the first attempt with HTTP 200: a failure, not retried.
C8_Witness ==
    /\ WrapperEnded
    /\ gw = "sendgrid"
    /\ Len(calls) = 1
    /\ LastCall.status = 200
    /\ outcome.value.success = FALSE

(* C9: no gateway operation of action.py raises to its caller: whatever    *)
(* the credentials, the transport failures, the statuses and the body      *)
(* shapes, it returns a data/error or a success/message value.             *)
C9_GatewaysNeverRaise ==
    pc = "done" /\ gw \in ApiGateways =>
        /\ outcome.kind = "returned"
        /\ IF gw \in {"recipes", "details"}
           THEN DOMAIN outcome.value = {"data", "error"}
           ELSE /\ DOMAIN outcome.value = {"success", "message"}
                /\ outcome.value.success \in BOOLEAN

\* Chat delivery got HTTP 200 with a JSON body that is not an object.
C9_Witness ==
    /\ WrapperEnded
    /\ gw = "telegram"
    /\ LastCall.status = 200
    /\ LastCall.body = "list"
    /\ outcome.kind = "returned"

\* The error text of a returned gateway value.
ErrorText(g, v) == IF g \in {"recipes", "details"} THEN v.error ELSE v.message

ErrorPrefix(g) ==
    CASE g \in {"recipes", "details"} -> "Error communicating with Spoonacular: "
      [] g = "telegram" -> "Error sending Telegram message: "
      [] g = "sendgrid" -> "Error sending email via SendGrid: "

(* C10, as claimed: every recipe / delivery gateway classifies a failed    *)
(* call by the status of its final attempt: 401 or 403 as authentication   *)
(* failure, 429 as rate limit (all four gateways alike), 404 as not-found  *)
(* (recipe detail lookup).                                                 *)
C10_UniformTaxonomy ==
    WrapperEnded /\ gw \in ApiGateways /\ wres.kind = "raise" /\ LastCall.net = "ok" =>
        /\ outcome.kind = "returned"
        /\ LastCall.status \in {401, 403} =>
               ErrorText(gw, outcome.value) \in
                   {ErrorPrefix(gw) \o "Authentication failed (Invalid API Key?)",
                    ErrorPrefix(gw) \o "Authentication failed (Invalid Bot Token?)",
                    ErrorPrefix(gw) \o "Authentication failed (Invalid API Key or Permissions?)"}
        /\ LastCall.status = 429 =>
               ErrorText(gw, outcome.value) = ErrorPrefix(gw) \o "API rate limit exceeded"
        /\ LastCall.status = 404 /\ gw = "details" =>
               ErrorText(gw, outcome.value) = ErrorPrefix(gw) \o "Recipe ID 716429 not found"

\* The running recipe search / detail lookup went through a failure path: a
\* missing credential, a wrapper that raised, or a body the code cannot read.
LookupFailurePath ==
    \/ CredentialAbsent(gw)
    \/ wres.kind = "raise"
    \/ wres.kind = "return" /\ LastCall.body = "bad_json"
    \/ wres.kind = "return" /\ gw = "details" /\ LastCall.body = "null"

(* C11: every outcome of the recipe search and recipe detail gateways has  *)
(* data and error never both set; on every failure path error is set and   *)
(* data is null; on every success path error is null, and data is empty    *)
(* there only because the provider's body was itself empty (JSON null).    *)
C11_DataXorError ==
    pc = "done" /\ gw \in {"recipes", "details"} =>
        /\ outcome.kind = "returned"
        /\ ~(outcome.value.data # None /\ outcome.value.error # None)
        /\ LookupFailurePath =>
               outcome.value.error \notin {None, ""} /\ outcome.value.data = None
        /\ ~LookupFailurePath =>
               /\ outcome.value.error = None
               /\ outcome.value.data = None => LastCall.body = "null"

\* A recipe search answered with HTTP 200 and the body `null`: neither is set.
C11_Witness ==
    /\ WrapperEnded
    /\ gw = "recipes"
    /\ LastCall.status = 200
    /\ LastCall.body = "null"
    /\ outcome.value = [data |-> None, error |-> None]

\* A reply of the reasoning provider that is blocked or has no candidates.
BlockedOrEmpty(reply) ==
    reply.net = "ok" /\ reply.status = 200 /\ reply.body \in {"blocked", "no_candidates"}

(* C12: in the reasoning retry loop a reply with a blocked-content signal  *)
(* or without candidates ends the loop at once, on whichever attempt it    *)
(* arrives: no attempt and no backoff wait follows it, and the caller gets *)
(* an error outcome.                                                       *)
C12_BlockedEndsLoop ==
    gw = "gemini" =>
        \A i \in 1..Len(calls) :
            BlockedOrEmpty(calls[i]) =>
                /\ i = Len(calls)
                /\ pc = "done"
                /\ Len(sleeps) = i - 1
                /\ wres.kind = "error"
                /\ outcome.kind = "returned"
                /\ outcome.value.error \notin {None, ""}

\* The second attempt of a reasoning call came back blocked.
C12_Witness ==
    /\ gw = "gemini"
    /\ Len(calls) = 2
    /\ BlockedOrEmpty(calls[2])
    /\ calls[2].body = "blocked"
    /\ pc = "done"

\* The reasoning call succeeded and its reply carries a text string.
ReasoningTextRead ==
    /\ WrapperEnded
    /\ gw = "gemini"
    /\ wres.kind = "return"
    /\ LastCall.body \in GeminiTextBodies

(* C13, as claimed: when the reasoning call itself succeeds, the top-level *)
(* error of the result is set, to a summary of the embedded errors, if and *)
(* only if at least one [ERROR: X] tag was extracted from the reply text,  *)
(* for every X, an empty or whitespace-only X included.                    *)
C13_Original ==
    ReasoningTextRead =>
        /\ outcome.value.error # None <=> error_matches(LastCall.body) # <<>>
        /\ outcome.value.error # None =>
               outcome.value.error = "LLM identified issues: " \o outcome.value.metadata.errors

\* Some extracted tag has text left after trimming.
SomeNonBlankTag(body) ==
    \E i \in DOMAIN error_matches(body) : strip(error_matches(body)[i]) # ""

(* C13, amended: when the reasoning call itself succeeds and the reply     *)
(* text is read, the top-level error is set, to "LLM identified issues: "  *)
(* followed by the summary, if and only if at least one extracted          *)
(* [ERROR: X] tag has a non-blank X; a reply without error tags, or whose  *)
(* error tags are all empty or whitespace-only, leaves the error unset.    *)
C13_ErrorIffNonBlankTag ==
    ReasoningTextRead =>
        /\ outcome.value.error # None <=> SomeNonBlankTag(LastCall.body)
        /\ outcome.value.error # None =>
               outcome.value.error = "LLM identified issues: " \o outcome.value.metadata.errors
        /\ outcome.value.metadata.errors = "" <=> ~SomeNonBlankTag(LastCall.body)

\* The reply text carries the single tag "[ERROR: ]": extracted, yet no error.
C13_Witness ==
    /\ ReasoningTextRead
    /\ LastCall.body = "text_empty_error_tag"
    /\ error_matches(LastCall.body) = <<"">>
    /\ outcome.value.error = None

----------------------------------------------------------------------------
(* models.py: the values the pipelines build *)

\* An Optional[List[...]] field: null, or a list of items.
Null == [kind |-> "null"]
List(items) == [kind |-> "list", items |-> items]

\* An Optional[float] field, in tenths: None, or a number.
NoAmount == [none |-> TRUE, tenths |-> 0]
Amount(tenths) == [none |-> FALSE, tenths |-> tenths]

IngredientDetail(name, amount, unit, is_estimate) ==
    [name |-> name, amount |-> amount, unit |-> unit, is_estimate |-> is_estimate]

SpoonacularIngredient(id, amount, unit, name) ==
    [id |-> id, amount |-> amount, unit |-> unit, name |-> name]

RecipeSummary(id, title, usedIngredientCount, missedIngredientCount) ==
    [id |-> id, title |-> title, image |-> None,
     usedIngredientCount |-> usedIngredientCount,
     missedIngredientCount |-> missedIngredientCount]

\* llm_result.metadata.dict()
Dict(metadata) == [kind |-> "dict", errors |-> metadata.errors]

FindRecipesResponse(recipes, error, llm_prompt, metadata) ==
    [recipes |-> recipes, error |-> error, llm_prompt |-> llm_prompt, metadata |-> metadata]

GetMissingIngredientsResponse(missingIngredients, isEstimate, error, llm_prompt) ==
    [missingIngredients |-> missingIngredients, isEstimate |-> isEstimate, error |-> error,
     llm_prompt |-> llm_prompt, metadata |-> Null]

SendListResponse(success, message, llm_prompt) ==
    [success |-> success, message |-> message, llm_prompt |-> llm_prompt, metadata |-> Null]

(* main.py: what an endpoint answers *)

\* The pipeline returned: HTTP 200 with the response model as body.
HttpOk(body) == [status_code |-> 200, body |-> body]

\* except Exception: raise HTTPException(status_code=500, detail=...)
HTTPException(detail) == [status_code |-> 500, detail |-> detail]

----------------------------------------------------------------------------
(* Python strings, character by character. A str is the sequence of its    *)
(* characters; an Optional[str] is Null or Chars(s). Text(s) is the string *)
(* the characters spell.                                                   *)

Chars(s) == [kind |-> "str", chars |-> s]

RECURSIVE Text(_)
Text(s) == IF s = <<>> THEN "" ELSE Head(s) \o Text(Tail(s))

ascii_uppercase == <<"A", "B", "C", "D", "E", "F", "G", "H", "I", "J", "K", "L", "M", "N", "O", "P", "Q", "R", "S", "T", "U", "V", "W", "X", "Y", "Z">>
ascii_lowercase == <<"a", "b", "c", "d", "e", "f", "g", "h", "i", "j", "k", "l", "m", "n", "o", "p", "q", "r", "s", "t", "u", "v", "w", "x", "y", "z">>

\* `not s` of an Optional[str]
NotStr(s) == s = Null \/ s.chars = <<>>

\* str.lower()
lower(s) ==
    [i \in DOMAIN s |->
        IF \E k \in DOMAIN ascii_uppercase : ascii_uppercase[k] = s[i]
        THEN ascii_lowercase[CHOOSE k \in DOMAIN ascii_uppercase : ascii_uppercase[k] = s[i]]
        ELSE s[i]]

\* \w of the re module: a letter, a digit or the underscore
is_word(c) ==
    \/ \E k \in DOMAIN ascii_uppercase : c \in {ascii_uppercase[k], ascii_lowercase[k]}
    \/ c \in {"0", "1", "2", "3", "4", "5", "6", "7", "8", "9"}
    \/ c = "_"

\* \s of the re module
is_space(c) == c \in {" ", "\t", "\n", "\r"}

\* str.lstrip(), str.rstrip()
RECURSIVE lstrip(_)
lstrip(s) == IF s # <<>> /\ is_space(Head(s)) THEN lstrip(Tail(s)) ELSE s

RECURSIVE rstrip(_)
rstrip(s) ==
    IF s # <<>> /\ is_space(s[Len(s)]) THEN rstrip(SubSeq(s, 1, Len(s) - 1)) ELSE s

\* re.sub(r'\s+', ' ', s): every maximal run of whitespace becomes one space
RECURSIVE sub_whitespace_runs(_)
sub_whitespace_runs(s) ==
    IF s = <<>> THEN <<>>
    ELSE IF is_space(Head(s)) THEN <<" ">> \o sub_whitespace_runs(lstrip(s))
    ELSE <<Head(s)>> \o sub_whitespace_runs(Tail(s))

\* s.endswith(suffix)
endswith(s, suffix) ==
    Len(suffix) <= Len(s) /\ SubSeq(s, Len(s) - Len(suffix) + 1, Len(s)) = suffix

\* `a in b` of two strings
is_substring(a, b) ==
    \E i \in 0..(Len(b) - Len(a)) : SubSeq(b, i + 1, i + Len(a)) = a

----------------------------------------------------------------------------
(* The requests *)

RecipeTitles ==
    {Chars(<<"C", "h", "i", "c", "k", "e", "n", " ", "A", "l", "f", "r", "e", "d", "o", " ", "P", "a", "s", "t", "a">>),
     Chars(<<"C", "a", "e", "s", "a", "r", " ", "S", "a", "l", "a", "d">>),
     Chars(<<"T", "o", "m", "a", "t", "o", " ", "S", "o", "u", "p">>),
     Chars(<<"P", "l", "a", "i", "n", " ", "R", "i", "c", "e">>)}

FindRecipesRequests ==
    {[endpoint |-> "find-recipes", ingredients |-> "chicken, rice", foodType |-> "any",
      cuisine |-> "any"]}

GetMissingIngredientsRequests ==
    {[endpoint |-> "get-missing-ingredients", recipeId |-> Request.recipe_id,
      recipeTitle |-> t,
      userIngredients |-> <<Chars(<<"c", "h", "i", "c", "k", "e", "n">>), Chars(<<"R", "i", "c", "e">>)>>] :
        t \in RecipeTitles}

\* A shopping list with an exact item, an item without unit and an item
\* without amount.
ShoppingList ==
    <<IngredientDetail("onions", Amount(20), "", FALSE),
      IngredientDetail("salt", Amount(5), "tsp", FALSE),
      IngredientDetail("parsley", NoAmount, None, FALSE)>>

SendListRequest(method, missingIngredients) ==
    [endpoint |-> "send-list", deliveryMethod |-> method,
     deliveryDetails |-> (IF method = "telegram" THEN Request.chat_id ELSE Request.to_email),
     recipeTitle |-> "Plain Rice",
     missingIngredients |-> missingIngredients]

SendListRequests ==
    {SendListRequest(m, l) : m \in {"telegram", "email"}, l \in {<<>>, ShoppingList}}

----------------------------------------------------------------------------
(* The gateway calls as a pipeline sees them: the credential check, then    *)
(* the gateway's handling of whatever its retry wrapper ended with.         *)

\* What _make_request_with_retry can end with: the response of a successful
\* attempt, or the exception of the final failed attempt.
ApiWrapperResults(g) ==
    {Returned(r) : r \in {x \in ApiReplies(g) : AttemptSucceeds(x)}}
        \cup {Raised(AttemptException(r)) : r \in {x \in ApiReplies(g) : ~AttemptSucceeds(x)}}

\* What one attempt of _call_gemini_api_with_retry can end with.
LlmAttempts == {gemini_try(r, j) : r \in GeminiReplies, j \in JsonErrors}

\* What _call_gemini_api_with_retry can end with: the reply data of a
\* successful attempt, or an error structure.
LlmWrapperResults ==
    {Returned(t.value) : t \in {a \in LlmAttempts : a.kind = "returned"}}
        \cup {llm_exhausted_result(t.exc) :
                 t \in {a \in LlmAttempts : a.kind = "raised" /\ IsRequestException(a.exc)}}
        \cup {llm_other_exception_result(t.exc) :
                 t \in {a \in LlmAttempts : a.kind = "raised" /\ ~IsRequestException(a.exc)}}

\* perception.run_llm_analysis(query, stage, context)
run_llm_analysis(failure, w) ==
    IF Not(get_api_key("gemini")) THEN Ret(llm_missing_key_result)
    ELSE IF failure = "makedirs" THEN Throw(MakedirsError)
    ELSE Ret(llm_result(w))

\* action.fetch_spoonacular_recipes(ingredients, preferences)
call_fetch_spoonacular_recipes(w, jsonErr) ==
    IF Not(get_api_key("spoonacular"))
    THEN Ret([data |-> None, error |-> MissingKey("Spoonacular")])
    ELSE fetch_spoonacular_recipes(w, jsonErr)

\* action.fetch_spoonacular_details(recipe_id)
call_fetch_spoonacular_details(w, jsonErr) ==
    IF Not(get_api_key("spoonacular"))
    THEN Ret([data |-> None, error |-> MissingKey("Spoonacular")])
    ELSE fetch_spoonacular_details(w, jsonErr)

\* action.send_telegram_message(chat_id, text)
call_send_telegram_message(w, jsonErr) ==
    IF Not(get_api_key("telegram_bot"))
    THEN Ret([success |-> FALSE, message |-> MissingKey("Telegram Bot")])
    ELSE send_telegram_message(w, jsonErr)

\* action.send_sendgrid_email(to_email, subject, content)
call_send_sendgrid_email(w) ==
    LET failure == sendgrid_precondition(get_api_key("sendgrid"),
                                         get_api_key("sendgrid_sender"))
    IN IF failure # None
       THEN Ret([success |-> FALSE, message |-> failure])
       ELSE send_sendgrid_email(w, get_api_key("sendgrid_sender"))

\* The results above are the results of the gateway state machine: an
\* invariant of Spec.
GatewayCallsAgree ==
    pc = "done" =>
        CASE gw = "recipes" ->
                 \E w \in ApiWrapperResults(gw), j \in JsonErrors :
                     outcome = call_fetch_spoonacular_recipes(w, j)
          [] gw = "details" ->
                 \E w \in ApiWrapperResults(gw), j \in JsonErrors :
                     outcome = call_fetch_spoonacular_details(w, j)
          [] gw = "telegram" ->
                 \E w \in ApiWrapperResults(gw), j \in JsonErrors :
                     outcome = call_send_telegram_message(w, j)
          [] gw = "sendgrid" ->
                 \E w \in ApiWrapperResults(gw) : outcome = call_send_sendgrid_email(w)
          [] gw = "gemini" ->
                 \E w \in LlmWrapperResults, failure \in LogFailures :
                     outcome = run_llm_analysis(failure, w)

----------------------------------------------------------------------------
(* decision_making.process_find_recipes *)

\* `needle in text`, for the two needles the pipeline looks for
contains(needle, text) ==
    CASE needle = "LLM identified issues" ->
             text \in {"LLM identified issues: " \o metadata_errors(b) : b \in GeminiTextBodies}
                         \cup {"LLM identified issues: Invalid input type"}
      [] needle = "Invalid ingredients" ->
             text = "Ambiguous request; Invalid ingredients provided: xyzzy"

\* lines 31-33: both conditions of the short-circuit
invalid_ingredients_flagged(result) ==
    /\ ~Not(result.error)
    /\ contains("LLM identified issues", result.error)
    /\ contains("Invalid ingredients", result.metadata.errors)

\* lines 59-78: the RecipeSummary list built from the provider's data, or the
\* exception the loop over it ends with
recipe_summaries(data) ==
    CASE data = "list" ->
             Ret(<<RecipeSummary(716429, "Chicken Alfredo Pasta", 2, 3),
                   RecipeSummary(715538, "Plain Rice", 1, 0)>>)
      [] data = "list_malformed" -> Throw(Exc("KeyError", "'id'", NoResponse))
      [] OTHER -> Ret(<<>>)

\* line 82
no_recipes_error(recipes) ==
    IF recipes # <<>> THEN None
    ELSE "No recipes found matching your ingredients and preferences."

\* lines 50-85: the response after the recipe lookup returned `result`
find_recipes_response(reasoning, result) ==
    IF ~Not(result.error)
    THEN FindRecipesResponse(Null, result.error, reasoning.prompt, Dict(reasoning.metadata))
    ELSE LET recipes == recipe_summaries(result.data)
         IN IF recipes.kind = "raised"
            THEN FindRecipesResponse(Null,
                                     "Error processing recipe data: " \o Str(recipes.exc),
                                     reasoning.prompt, Dict(reasoning.metadata))
            ELSE FindRecipesResponse(List(recipes.value), no_recipes_error(recipes.value),
                                     reasoning.prompt, Dict(reasoning.metadata))

\* lines 34-39
invalid_ingredients_response(reasoning) ==
    FindRecipesResponse(Null,
                        "Invalid ingredients detected: " \o reasoning.metadata.errors,
                        reasoning.prompt, Dict(reasoning.metadata))

----------------------------------------------------------------------------
(* action.generate_fallback_ingredients, lines 218-244 *)

\* The keywords of the generator that occur in title.lower() (line 221:
\* title = recipe_title.lower() if recipe_title else "")
TitleKeywords(title) ==
    LET lowered == IF NotStr(title) THEN <<>> ELSE lower(title.chars)
        keywords ==
            {<<"p", "a", "s", "t", "a">>, <<"s", "p", "a", "g", "h", "e", "t", "t", "i">>,
             <<"l", "a", "s", "a", "g", "n", "a">>, <<"m", "a", "c", "a", "r", "o", "n", "i">>,
             <<"c", "h", "i", "c", "k", "e", "n">>, <<"s", "a", "l", "a", "d">>, <<"s", "o", "u", "p">>}
    IN {Text(k) : k \in {w \in keywords : is_substring(w, lowered)}}

Estimate(name, tenths, unit) == IngredientDetail(name, Amount(tenths), unit, TRUE)

BaseEstimates ==
    <<Estimate("(Estimate) Salt", 10, "tsp"), Estimate("(Estimate) Pepper", 5, "tsp"),
      Estimate("(Estimate) Cooking Oil", 10, "tbsp")>>

\* (mutant of generate_fallback_ingredients: the base estimates are left out
\* when the title names a category)
generate_fallback_ingredients_category_first(recipe_title) ==
    IF TitleKeywords(recipe_title) \cap {"pasta", "spaghetti", "lasagna", "macaroni"} # {}
    THEN <<Estimate("(Estimate) Pasta", 80, "oz"),
           Estimate("(Estimate) Tomato Sauce", 10, "can")>>
    ELSE BaseEstimates

\* (mutant of generate_fallback_ingredients: the chicken test comes first)
generate_fallback_ingredients_chicken_first(recipe_title) ==
    IF "chicken" \in TitleKeywords(recipe_title)
    THEN BaseEstimates \o <<Estimate("(Estimate) Chicken", 10, "lb")>>
    ELSE IF TitleKeywords(recipe_title) \cap {"pasta", "spaghetti", "lasagna", "macaroni"} # {}
    THEN BaseEstimates \o <<Estimate("(Estimate) Pasta", 80, "oz"),
                            Estimate("(Estimate) Tomato Sauce", 10, "can")>>
    ELSE IF "salad" \in TitleKeywords(recipe_title)
    THEN BaseEstimates \o <<Estimate("(Estimate) Lettuce", 10, "head"),
                            Estimate("(Estimate) Vinaigrette", 20, "tbsp")>>
    ELSE IF "soup" \in TitleKeywords(recipe_title)
    THEN BaseEstimates \o <<Estimate("(Estimate) Broth", 40, "cups")>>
    ELSE BaseEstimates

\* lines 218-244
generate_fallback_ingredients(recipe_title) ==
    IF TitleKeywords(recipe_title) \cap {"pasta", "spaghetti", "lasagna", "macaroni"} # {}
    THEN BaseEstimates \o <<Estimate("(Estimate) Pasta", 80, "oz"),
                            Estimate("(Estimate) Tomato Sauce", 10, "can")>>
    ELSE IF "chicken" \in TitleKeywords(recipe_title)
    THEN BaseEstimates \o <<Estimate("(Estimate) Chicken", 10, "lb")>>
    ELSE IF "salad" \in TitleKeywords(recipe_title)
    THEN BaseEstimates \o <<Estimate("(Estimate) Lettuce", 10, "head"),
                            Estimate("(Estimate) Vinaigrette", 20, "tbsp")>>
    ELSE IF "soup" \in TitleKeywords(recipe_title)
    THEN BaseEstimates \o <<Estimate("(Estimate) Broth", 40, "cups")>>
    ELSE BaseEstimates

----------------------------------------------------------------------------
(* utils.normalize_ingredient and utils.find_missing_ingredients *)

\* (mutant of normalize_ingredient: the plural 's' is tested before 'es')
normalize_ingredient_s_first(name) ==
    IF NotStr(name) THEN <<>>
    ELSE LET kept == SelectSeq(lower(name.chars), LAMBDA c : is_word(c) \/ is_space(c))
             spaced == rstrip(lstrip(sub_whitespace_runs(kept)))
         IN IF endswith(spaced, <<"s">>) THEN SubSeq(spaced, 1, Len(spaced) - 1)
            ELSE spaced

\* lines 6-16
normalize_ingredient(name) ==
    IF NotStr(name) THEN <<>>
    ELSE LET kept == SelectSeq(lower(name.chars), LAMBDA c : is_word(c) \/ is_space(c))
             spaced == rstrip(lstrip(sub_whitespace_runs(kept)))
         IN IF endswith(spaced, <<"e", "s">>) THEN SubSeq(spaced, 1, Len(spaced) - 2)
            ELSE IF endswith(spaced, <<"s">>) THEN SubSeq(spaced, 1, Len(spaced) - 1)
            ELSE spaced

\* (mutant of skipped: only entries without a name are passed over)
skipped_without_name(req_ing) == req_ing = Null \/ NotStr(req_ing.name)

\* lines 27-30: the required entries the loop passes over
skipped(req_ing) ==
    \/ req_ing = Null
    \/ NotStr(req_ing.name)
    \/ normalize_ingredient(req_ing.name) = <<>>

\* (mutant of found: a required name is looked for inside the owned names only)
found_inside_owned(normalized_req, normalized_user_ingredients) ==
    \/ normalized_req \in normalized_user_ingredients
    \/ \E user_ing_norm \in normalized_user_ingredients :
         user_ing_norm # <<>> /\ is_substring(normalized_req, user_ing_norm)

\* lines 32-43
found(normalized_req, normalized_user_ingredients) ==
    \/ normalized_req \in normalized_user_ingredients
    \/ \E user_ing_norm \in normalized_user_ingredients :
         /\ user_ing_norm # <<>>
         /\ \/ is_substring(normalized_req, user_ing_norm)
            \/ is_substring(user_ing_norm, normalized_req)

\* lines 18-50
find_missing_ingredients(required_ingredients, user_ingredients) ==
    LET normalized_user_ingredients ==
            {normalize_ingredient(user_ingredients[i]) :
                i \in {j \in DOMAIN user_ingredients : ~NotStr(user_ingredients[j])}}
        missing(req_ing) ==
            /\ ~skipped(req_ing)
            /\ ~found(normalize_ingredient(req_ing.name), normalized_user_ingredients)
    IN SelectSeq(required_ingredients, missing)

----------------------------------------------------------------------------
(* decision_making.process_get_missing_ingredients *)

\* The validated extendedIngredients of the provider's recipe.
RecipeIngredients ==
    <<SpoonacularIngredient(5062, 10, "lb",
                            Chars(<<"C", "h", "i", "c", "k", "e", "n", " ", "B", "r", "e", "a", "s", "t">>)),
      SpoonacularIngredient(11282, 20, "", Chars(<<"O", "n", "i", "o", "n", "s">>)),
      SpoonacularIngredient(2047, 5, "tsp", Chars(<<"s", "a", "l", "t">>))>>

\* lines 126-137: required_ingredients, or the exception the extraction ends with
required_ingredients(data) ==
    CASE data = "dict_ext_valid:SpoonacularIngredient" -> Ret(RecipeIngredients)
      [] data = "dict_ext_invalid" ->
             Throw(Exc("ValidationError", "1 validation error for SpoonacularIngredient",
                       NoResponse))
      [] data = "dict_ext_empty:SpoonacularIngredient" ->
             Throw(Exc("IndexError", "list index out of range", NoResponse))
      [] OTHER -> Ret(<<>>)

\* lines 155-163
missing_ingredient_details(missing_ingredients_raw) ==
    [i \in DOMAIN missing_ingredients_raw |->
        IngredientDetail(Text(missing_ingredients_raw[i].name.chars),
                         Amount(missing_ingredients_raw[i].amount),
                         missing_ingredients_raw[i].unit, FALSE)]

\* lines 116-123 and 140-146
fallback_response(req, error, reasoning) ==
    GetMissingIngredientsResponse(List(generate_fallback_ingredients(req.recipeTitle)),
                                  TRUE, error, reasoning.prompt)

\* lines 113-171: the helper called after the detail lookup returned `result`
get_missing_helper(result) ==
    IF ~Not(result.error) \/ required_ingredients(result.data).kind = "raised"
    THEN "generate_fallback_ingredients"
    ELSE "find_missing_ingredients"

\* lines 113-171: the response after the detail lookup returned `result`
get_missing_response(req, reasoning, result) ==
    IF ~Not(result.error)
    THEN fallback_response(req,
                           "Could not retrieve exact recipe ingredients: " \o result.error,
                           reasoning)
    ELSE LET required == required_ingredients(result.data)
         IN IF required.kind = "raised"
            THEN fallback_response(req,
                                   "Error processing recipe ingredients: "
                                       \o Str(required.exc),
                                   reasoning)
            ELSE GetMissingIngredientsResponse(
                     List(missing_ingredient_details(
                              find_missing_ingredients(required.value, req.userIngredients))),
                     FALSE, None, reasoning.prompt)

----------------------------------------------------------------------------
(* decision_making.process_send_list *)

\* str(x) of a float with one decimal
float_str(amount) ==
    ToString(amount.tenths \div 10) \o "." \o ToString(amount.tenths % 10)

\* (mutant of amount_and_unit: `is not None` in place of truthiness)
amount_and_unit_not_none(ing) == ~ing.amount.none /\ ing.unit # None

\* line 182: if ing.amount and ing.unit (a float is truthy unless it is zero)
amount_and_unit(ing) == ~ing.amount.none /\ ing.amount.tenths # 0 /\ ~Not(ing.unit)

\* lines 182-185
format_ingredient(ing) ==
    IF amount_and_unit(ing)
    THEN float_str(ing.amount) \o " " \o ing.unit \o " " \o ing.name
    ELSE ing.name

\* lines 180-185
format_ingredients(missingIngredients) ==
    [i \in DOMAIN missingIngredients |-> format_ingredient(missingIngredients[i])]

\* lines 187-188
ingredients_text(formatted) ==
    IF formatted # <<>>
    THEN join("\n", [i \in DOMAIN formatted |-> "- " \o formatted[i]])
    ELSE "You have all needed ingredients!"

\* (mutant of list_message: the items section is written for every list)
list_message_always_items(req, formatted) ==
    "Shopping List for: " \o req.recipeTitle \o "\n\n"
        \o "Items you need:\n" \o ingredients_text(formatted)
        \o "\n\nHappy cooking!\nSent via Recipe Suggester"

\* lines 207-214
list_message(req, formatted) ==
    "Shopping List for: " \o req.recipeTitle \o "\n\n"
        \o (IF formatted # <<>>
            THEN "Items you need:\n" \o ingredients_text(formatted)
            ELSE "Good news! You have all the ingredients needed for this recipe.")
        \o "\n\nHappy cooking!\nSent via Recipe Suggester"

\* lines 217-220: the gateway the list goes to
delivery_gateway(req) ==
    IF req.deliveryMethod = "telegram" THEN "send_telegram_message" ELSE "send_sendgrid_email"

----------------------------------------------------------------------------
(* The pipelines as a state machine *)

\* One call of a gateway or helper, with the text handed to it.
Invocation(name, text) == [name |-> name, text |-> text]

\* The `query` a pipeline builds for the reasoning call (lines 14-18, 95-96, 191-192)
reasoning_query(req) ==
    CASE req.endpoint = "find-recipes" ->
             "The user wants recipe suggestions for these ingredients: '"
                 \o req.ingredients \o "'"
                 \o (IF ~Not(req.foodType) /\ req.foodType # "any"
                     THEN ", with food type preference: " \o req.foodType ELSE "")
                 \o (IF ~Not(req.cuisine) /\ req.cuisine # "any"
                     THEN ", and cuisine preference: " \o req.cuisine ELSE "")
      [] req.endpoint = "get-missing-ingredients" ->
             "The user selected the recipe '" \o Text(req.recipeTitle.chars) \o "' (ID: "
                 \o req.recipeId \o ") and has these ingredients: "
                 \o join(", ", [i \in DOMAIN req.userIngredients |->
                                     Text(req.userIngredients[i].chars)])
                 \o ". We need to determine what ingredients they're missing for this recipe."
      [] req.endpoint = "send-list" ->
             "The user wants to send a shopping list for the recipe '" \o req.recipeTitle
                 \o "' via " \o req.deliveryMethod \o " to '" \o req.deliveryDetails
                 \o "'. The list contains these items:\n"
                 \o ingredients_text(format_ingredients(req.missingIngredients))

\* The calls run_llm_analysis makes: the retry wrapper is reached only with a
\* credential and a log directory.
reasoning_invocations(result, query) ==
    IF result.kind = "returned" /\ result.value # llm_missing_key_result
    THEN <<Invocation("run_llm_analysis", query),
           Invocation("_call_gemini_api_with_retry", build_reasoning_prompt)>>
    ELSE <<Invocation("run_llm_analysis", query)>>

\* llm_result = perception.run_llm_analysis(...): the first half of a pipeline.
\* An exception leaves the pipeline and becomes the endpoint's HTTP 500.
CallReasoning(req, failure, w, detail) ==
    LET result == run_llm_analysis(failure, w)
    IN /\ request' = req
       /\ log_failure' = IF Not(get_api_key("gemini")) THEN "none" ELSE failure
       /\ llm' = result
       /\ invoked' = reasoning_invocations(result, reasoning_query(req))
       /\ api_result' = NoResult
       /\ IF result.kind = "raised"
          THEN step' = "responded" /\ http_response' = HTTPException(detail)
          ELSE step' = "reasoned" /\ http_response' = NoHttpResponse
       /\ UNCHANGED <<API_KEYS, gateway_vars>>

\* process_find_recipes, lines 13-39
ProcessFindRecipes_Reasoning ==
    /\ step = "idle"
    /\ \E req \in FindRecipesRequests, failure \in LogFailures, w \in LlmWrapperResults :
         LET result == run_llm_analysis(failure, w)
         IN IF result.kind = "returned" /\ invalid_ingredients_flagged(result.value)
            THEN /\ request' = req
                 /\ log_failure' = failure
                 /\ llm' = result
                 /\ invoked' = reasoning_invocations(result, reasoning_query(req))
                 /\ step' = "responded"
                 /\ http_response' = HttpOk(invalid_ingredients_response(result.value))
                 /\ UNCHANGED <<API_KEYS, gateway_vars, api_result, formatted_ingredients>>
            ELSE /\ CallReasoning(req, failure, w, "Internal server error processing recipes.")
                 /\ UNCHANGED formatted_ingredients

\* process_find_recipes, lines 41-85
ProcessFindRecipes_Lookup ==
    /\ step = "reasoned"
    /\ request.endpoint = "find-recipes"
    /\ \E w \in ApiWrapperResults("recipes"), jsonErr \in JsonErrors :
         LET result == call_fetch_spoonacular_recipes(w, jsonErr).value
         IN /\ api_result' = result
            /\ invoked' = Append(invoked,
                                 Invocation("fetch_spoonacular_recipes", request.ingredients))
            /\ http_response' = HttpOk(find_recipes_response(llm.value, result))
    /\ step' = "responded"
    /\ UNCHANGED <<API_KEYS, gateway_vars, request, log_failure, llm, formatted_ingredients>>

\* process_get_missing_ingredients, lines 88-107
ProcessGetMissingIngredients_Reasoning ==
    /\ step = "idle"
    /\ \E req \in GetMissingIngredientsRequests, failure \in LogFailures,
          w \in LlmWrapperResults :
         CallReasoning(req, failure, w,
                       "Internal server error processing missing ingredients.")
    /\ UNCHANGED formatted_ingredients

\* process_get_missing_ingredients, lines 109-171
ProcessGetMissingIngredients_Details ==
    /\ step = "reasoned"
    /\ request.endpoint = "get-missing-ingredients"
    /\ \E w \in ApiWrapperResults("details"), jsonErr \in JsonErrors :
         LET result == call_fetch_spoonacular_details(w, jsonErr).value
         IN /\ api_result' = result
            /\ invoked' = invoked
                              \o <<Invocation("fetch_spoonacular_details", request.recipeId),
                                   Invocation(get_missing_helper(result),
                                              Text(request.recipeTitle.chars))>>
            /\ http_response' = HttpOk(get_missing_response(request, llm.value, result))
    /\ step' = "responded"
    /\ UNCHANGED <<API_KEYS, gateway_vars, request, log_failure, llm, formatted_ingredients>>

\* process_send_list, lines 174-204
ProcessSendList_Reasoning ==
    /\ step = "idle"
    /\ \E req \in SendListRequests, failure \in LogFailures, w \in LlmWrapperResults :
         /\ formatted_ingredients' = format_ingredients(req.missingIngredients)
         /\ CallReasoning(req, failure, w, "Internal server error sending shopping list.")

\* process_send_list, lines 206-227
ProcessSendList_Delivery ==
    /\ step = "reasoned"
    /\ request.endpoint = "send-list"
    /\ \E w \in ApiWrapperResults(IF request.deliveryMethod = "telegram"
                                   THEN "telegram" ELSE "sendgrid"),
          jsonErr \in JsonErrors :
         LET result == IF request.deliveryMethod = "telegram"
                       THEN call_send_telegram_message(w, jsonErr).value
                       ELSE call_send_sendgrid_email(w).value
         IN /\ api_result' = result
            /\ invoked' = Append(invoked,
                                 Invocation(delivery_gateway(request),
                                            list_message(request, formatted_ingredients)))
            /\ http_response' = HttpOk(SendListResponse(result.success, result.message,
                                                        llm.value.prompt))
    /\ step' = "responded"
    /\ UNCHANGED <<API_KEYS, gateway_vars, request, log_failure, llm, formatted_ingredients>>

\* The endpoint has answered; the next request starts afresh.
Respond ==
    /\ step = "responded"
    /\ request' = NoRequest
    /\ step' = "idle"
    /\ log_failure' = "none"
    /\ llm' = NoResult
    /\ api_result' = NoResult
    /\ formatted_ingredients' = <<>>
    /\ invoked' = <<>>
    /\ http_response' = NoHttpResponse
    /\ UNCHANGED <<API_KEYS, gateway_vars>>

PipeNext ==
    \/ ProcessFindRecipes_Reasoning
    \/ ProcessFindRecipes_Lookup
    \/ ProcessGetMissingIngredients_Reasoning
    \/ ProcessGetMissingIngredients_Details
    \/ ProcessSendList_Reasoning
    \/ ProcessSendList_Delivery
    \/ Respond

PipeSpec == Init /\ [][PipeNext]_vars

----------------------------------------------------------------------------
(* process_send_list, lines 180-185, taken alone: the formatting of every  *)
(* list of up to MaxIngredients ingredients.                               *)

MaxIngredients == 2

\* IngredientDetail values: amount null, zero or positive; unit null, empty or not.
FormatIngredientValues ==
    {IngredientDetail(n, a, u, FALSE) :
        n \in {"eggs", "flour"}, a \in {NoAmount, Amount(0), Amount(25)},
        u \in {None, "", "cups"}}

FormatRequests ==
    {SendListRequest("email", l) :
        l \in UNION {[1..n -> FormatIngredientValues] : n \in 0..MaxIngredients}}

FormatInit ==
    /\ API_KEYS = [k \in KeyNames |-> "secret"]
    /\ GatewayIdle
    /\ request \in FormatRequests
    /\ step = "formatting"
    /\ log_failure = "none"
    /\ llm = NoResult
    /\ api_result = NoResult
    /\ formatted_ingredients = <<>>
    /\ invoked = <<>>
    /\ http_response = NoHttpResponse

FormatIngredients ==
    /\ step = "formatting"
    /\ formatted_ingredients' = format_ingredients(request.missingIngredients)
    /\ step' = "formatted"
    /\ UNCHANGED <<API_KEYS, gateway_vars, request, log_failure, llm, api_result, invoked,
                   http_response>>

FormatSpec == FormatInit /\ [][FormatIngredients]_vars

----------------------------------------------------------------------------
(* utils.normalize_ingredient taken alone: every name of up to MaxNameLen  *)
(* characters of NameAlphabet, the null name and some ingredient names.    *)

MaxNameLen == 4

\* Letters that make the suffixes, a capital, a punctuation mark, the
\* underscore and a blank.
NameAlphabet == {"o", "n", "e", "s", "O", "!", "_", " "}

NameInputs ==
    {Null}
        \cup {Chars(s) : s \in UNION {[1..n -> NameAlphabet] : n \in 0..MaxNameLen}}
        \cup {Chars(s) : s \in
                {<<"O", "n", "i", "o", "n", "s">>, <<"o", "n", "i", "o", "n">>, <<"O", "n", "i", "o", "n", "!">>,
                 <<"T", "o", "m", "a", "t", "o", "e", "s">>, <<"a", "p", "p", "l", "e", "s">>,
                 <<" ", " ", "R", "e", "d", " ", " ", " ", "O", "n", "i", "o", "n", " ">>}}

\* Everything but the call under examination is at rest.
CallInit(arguments, position) ==
    /\ API_KEYS = [k \in KeyNames |-> "secret"]
    /\ GatewayIdle
    /\ request \in arguments
    /\ step = position
    /\ log_failure = "none"
    /\ llm = NoResult
    /\ api_result = NoResult
    /\ formatted_ingredients = <<>>
    /\ invoked = <<>>
    /\ http_response = NoHttpResponse

NormalizeInit == CallInit({[name |-> n] : n \in NameInputs}, "normalizing")

NormalizeIngredient ==
    /\ step = "normalizing"
    /\ api_result' = Ret(normalize_ingredient(request.name))
    /\ step' = "normalized"
    /\ UNCHANGED <<API_KEYS, gateway_vars, request, log_failure, llm, formatted_ingredients,
                   invoked, http_response>>

NormalizeSpec == NormalizeInit /\ [][NormalizeIngredient]_vars

----------------------------------------------------------------------------
(* utils.find_missing_ingredients taken alone: every required list and     *)
(* every owned list of up to MaxListLen entries.                           *)

MaxListLen == 2

\* Required entries: none, without a name, with a name that normalizes to
\* nothing, and with a name that does.
RequiredEntries ==
    {Null} \cup {SpoonacularIngredient(1, 10, "", n) :
                    n \in {Null, Chars(<<>>), Chars(<<"e", "s">>), Chars(<<"!">>),
                           Chars(<<"O", "n", "i", "o", "n", "s">>),
                           Chars(<<"r", "e", "d", " ", "o", "n", "i", "o", "n">>), Chars(<<"s", "a", "l", "t">>)}}

\* Owned entries: none, empty, normalizing to nothing, inside a required
\* name, around a required name, and apart from both.
OwnedEntries ==
    {Null, Chars(<<>>), Chars(<<"s">>), Chars(<<"o", "n", "i", "o", "n">>),
     Chars(<<"R", "e", "d", " ", "O", "n", "i", "o", "n", "s">>), Chars(<<"r", "i", "c", "e">>)}

MatchInit ==
    CallInit({[required_ingredients |-> r, user_ingredients |-> u] :
                 r \in UNION {[1..n -> RequiredEntries] : n \in 0..MaxListLen},
                 u \in UNION {[1..n -> OwnedEntries] : n \in 0..MaxListLen}},
             "matching")

FindMissingIngredients ==
    /\ step = "matching"
    /\ api_result' = Ret(find_missing_ingredients(request.required_ingredients,
                                                  request.user_ingredients))
    /\ step' = "matched"
    /\ UNCHANGED <<API_KEYS, gateway_vars, request, log_failure, llm, formatted_ingredients,
                   invoked, http_response>>

MatchSpec == MatchInit /\ [][FindMissingIngredients]_vars

----------------------------------------------------------------------------
(* action.generate_fallback_ingredients taken alone: the null title and    *)
(* every title of up to MaxTitleWords words of TitleWords.                 *)

MaxTitleWords == 2

\* The keywords in several cases, one of them inside a longer word, and two
\* words that are no keyword.
TitleWords ==
    {<<"C", "h", "i", "c", "k", "e", "n">>, <<"P", "A", "S", "T", "A">>,
     <<"S", "p", "a", "g", "h", "e", "t", "t", "i">>, <<"l", "a", "s", "a", "g", "n", "a">>,
     <<"M", "a", "c", "a", "r", "o", "n", "i">>, <<"S", "a", "l", "a", "d">>,
     <<"s", "o", "u", "p", "s">>, <<"A", "l", "f", "r", "e", "d", "o">>, <<"R", "i", "c", "e">>}

\* " ".join(words)
RECURSIVE Title(_)
Title(words) ==
    IF words = <<>> THEN <<>>
    ELSE IF Len(words) = 1 THEN words[1]
    ELSE words[1] \o <<" ">> \o Title(Tail(words))

TitleInputs ==
    {Null, Chars(<<"C", "h", "i", "c", "k", "e", "n", " ", "A", "l", "f", "r", "e", "d", "o", " ", "P", "a", "s", "t", "a">>)}
        \cup {Chars(Title(w)) : w \in UNION {[1..n -> TitleWords] : n \in 0..MaxTitleWords}}

GenerateInit == CallInit({[recipe_title |-> t] : t \in TitleInputs}, "generating")

GenerateFallbackIngredients ==
    /\ step = "generating"
    /\ api_result' = Ret(generate_fallback_ingredients(request.recipe_title))
    /\ step' = "generated"
    /\ UNCHANGED <<API_KEYS, gateway_vars, request, log_failure, llm, formatted_ingredients,
                   invoked, http_response>>

GenerateSpec == GenerateInit /\ [][GenerateFallbackIngredients]_vars

----------------------------------------------------------------------------
(* Vocabulary of the pipeline properties *)

Responded(endpoint) == step = "responded" /\ request.endpoint = endpoint

\* The names of the calls made so far, in order.
InvokedNames == [i \in DOMAIN invoked |-> invoked[i].name]

\* How often `name` was called.
Count(name) == Cardinality({i \in DOMAIN invoked : invoked[i].name = name})

(* C14, as claimed: in run_llm_analysis a failure of any step that         *)
(* produces the dated prompt/response log (creating the directory, opening *)
(* the file, writing the prompt, writing the response) never aborts the    *)
(* pipeline: the reasoning call is still made and the endpoint answers     *)
(* with its normal response, not a server error.                           *)
C14_LogFailureNeverAborts ==
    log_failure # "none" =>
        /\ llm.kind = "returned"
        /\ Count("_call_gemini_api_with_retry") = 1
        /\ step = "responded" => http_response.status_code = 200

\* The reply text carries an [ERROR: ...] tag about invalid ingredients.
InvalidIngredientsTag(text) ==
    \E i \in DOMAIN error_matches(text) :
        error_matches(text)[i] = "Invalid ingredients provided: xyzzy"

(* C15, as claimed: in find-recipes, when the reasoning result flags       *)
(* invalid ingredients the pipeline returns that error with recipes = null *)
(* and makes no Recipe Lookup call; in every other case exactly one Recipe *)
(* Lookup invocation happens, after the reasoning call has returned.       *)
C15_LookupUnlessInvalidIngredients ==
    Responded("find-recipes") =>
        IF llm.kind = "returned" /\ InvalidIngredientsTag(llm.value.response_text)
        THEN /\ http_response.status_code = 200
             /\ http_response.body.recipes = Null
             /\ http_response.body.error =
                    "Invalid ingredients detected: " \o llm.value.metadata.errors
             /\ Count("fetch_spoonacular_recipes") = 0
        ELSE /\ Count("fetch_spoonacular_recipes") = 1
             /\ InvokedNames[1] = "run_llm_analysis"
             /\ InvokedNames[Len(invoked)] = "fetch_spoonacular_recipes"

\* The Recipe Lookup call succeeded with zero matches.
ZeroMatches ==
    /\ Responded("find-recipes")
    /\ api_result # NoResult
    /\ api_result.error = None
    /\ recipe_summaries(api_result.data) = Ret(<<>>)

(* C16, as claimed: in find-recipes, when the Recipe Lookup call succeeds  *)
(* with zero matches the response has recipes = [] (never null) and the    *)
(* "no matches" text is not carried by the response's error field, which   *)
(* stays null as on every success.                                         *)
C16_NoMatchesIsNotAnError ==
    ZeroMatches =>
        /\ http_response.status_code = 200
        /\ http_response.body.recipes = List(<<>>)
        /\ http_response.body.error = None

\* The reasoning call returned a failure that does not end the pipeline.
AdvisoryReasoningFailure ==
    /\ step = "responded"
    /\ llm.kind = "returned"
    /\ llm.value.error # None
    /\ ~(request.endpoint = "find-recipes" /\ InvalidIngredientsTag(llm.value.response_text))

\* A reasoning result without any failure.
CleanReasoning == llm_result(Returned(Reply("ok", 200, "text_no_tags")))

\* The response the pipeline gives for `request` and `api_result` after a
\* clean reasoning result, without the prompt echo.
ResponseAfterCleanReasoning ==
    CASE request.endpoint = "find-recipes" ->
             LET r == find_recipes_response(CleanReasoning, api_result)
             IN <<r.recipes, r.error>>
      [] request.endpoint = "get-missing-ingredients" ->
             LET r == get_missing_response(request, CleanReasoning, api_result)
             IN <<r.missingIngredients, r.isEstimate, r.error>>
      [] request.endpoint = "send-list" -> <<api_result.success, api_result.message>>

ResponsePayload ==
    CASE request.endpoint = "find-recipes" ->
             <<http_response.body.recipes, http_response.body.error>>
      [] request.endpoint = "get-missing-ingredients" ->
             <<http_response.body.missingIngredients, http_response.body.isEstimate,
               http_response.body.error>>
      [] request.endpoint = "send-list" ->
             <<http_response.body.success, http_response.body.message>>

\* The response carries the reasoning diagnostic: its error text, or the
\* summary of the errors in its metadata.
DiagnosticCarried ==
    \/ http_response.body.metadata # Null /\ http_response.body.metadata.errors # ""
    \/ request.endpoint # "send-list" /\ http_response.body.error = llm.value.error

(* C17, as claimed: in all three pipelines every Reasoning Gateway failure *)
(* other than the invalid-ingredients case of find-recipes is advisory:    *)
(* the downstream gateway call is made as after a successful reasoning     *)
(* call, the payload of the response does not depend on the reasoning      *)
(* outcome, and the reasoning diagnostic text is carried to the response.  *)
C17_ReasoningFailureAdvisory ==
    AdvisoryReasoningFailure =>
        /\ http_response.status_code = 200
        /\ api_result # NoResult
        /\ ResponsePayload = ResponseAfterCleanReasoning
        /\ DiagnosticCarried

\* The detail call failed, or the ingredient extraction failed.
DetailOrExtractionFailed ==
    /\ Responded("get-missing-ingredients")
    /\ api_result # NoResult
    /\ \/ api_result.error # None
       \/ required_ingredients(api_result.data).kind = "raised"

BaseEstimateNames == {"(Estimate) Salt", "(Estimate) Pepper", "(Estimate) Cooking Oil"}

(* C18: in get-missing-ingredients, whenever the recipe-detail call fails  *)
(* (missing credential included) or the ingredient extraction fails, the   *)
(* pipeline does not abort: the response has isEstimate = true, a          *)
(* non-empty error, a missingIngredients list holding at least the three   *)
(* base estimates with every entry flagged is_estimate, and the            *)
(* Ingredient Matcher is not run.                                          *)
C18_FallbackOnDetailFailure ==
    DetailOrExtractionFailed =>
        /\ http_response.status_code = 200
        /\ http_response.body.isEstimate = TRUE
        /\ http_response.body.error \notin {None, ""}
        /\ http_response.body.missingIngredients.kind = "list"
        /\ LET items == http_response.body.missingIngredients.items
           IN /\ \A b \in BaseEstimateNames : \E i \in DOMAIN items : items[i].name = b
              /\ \A i \in DOMAIN items : items[i].is_estimate = TRUE
        /\ Count("find_missing_ingredients") = 0
        /\ Count("generate_fallback_ingredients") = 1

\* The provider's recipe has an invalid ingredient entry and the title names
\* the pasta category: five estimates are returned.
C18_Witness ==
    /\ DetailOrExtractionFailed
    /\ api_result.error = None
    /\ api_result.data = "dict_ext_invalid"
    /\ Text(request.recipeTitle.chars) = "Chicken Alfredo Pasta"
    /\ Len(http_response.body.missingIngredients.items) = 5

(* C19, as claimed: in send-list exactly one delivery gateway is invoked,  *)
(* exactly once per request and after the reasoning call: Chat Delivery if *)
(* and only if deliveryMethod = "telegram", Email Delivery otherwise; the  *)
(* success flag and message of the response are those the gateway          *)
(* returned.                                                               *)
C19_OneDeliveryVerbatim ==
    Responded("send-list") =>
        /\ Count("send_telegram_message") + Count("send_sendgrid_email") = 1
        /\ Count("send_telegram_message") = 1 <=> request.deliveryMethod = "telegram"
        /\ InvokedNames[1] = "run_llm_analysis"
        /\ InvokedNames[Len(invoked)] \in {"send_telegram_message", "send_sendgrid_email"}
        /\ http_response.status_code = 200
        /\ http_response.body.success = api_result.success
        /\ http_response.body.message = api_result.message

\* The line `amount unit name` of an ingredient.
FullLine(ing) == float_str(ing.amount) \o " " \o ing.unit \o " " \o ing.name

(* C20, as claimed: in send-list the formatted line of an ingredient is    *)
(* `amount unit name` exactly when amount and unit are both present (not   *)
(* null), whatever their values (amount 0 and an empty unit included), and *)
(* the bare name otherwise; one line per ingredient, in request order.     *)
C20_Original ==
    step = "formatted" =>
        /\ Len(formatted_ingredients) = Len(request.missingIngredients)
        /\ \A i \in DOMAIN request.missingIngredients :
             LET ing == request.missingIngredients[i]
             IN formatted_ingredients[i] =
                    IF ing.amount # NoAmount /\ ing.unit # None
                    THEN FullLine(ing)
                    ELSE ing.name

(* C20, amended: the formatted line of an ingredient is `amount unit name` *)
(* exactly when amount and unit are both truthy (amount neither null nor   *)
(* zero, unit neither null nor empty) and is the bare name otherwise; one  *)
(* line per ingredient, in request order.                                  *)
C20_AmountUnitWhenTruthy ==
    step = "formatted" =>
        /\ Len(formatted_ingredients) = Len(request.missingIngredients)
        /\ \A i \in DOMAIN request.missingIngredients :
             LET ing == request.missingIngredients[i]
             IN formatted_ingredients[i] =
                    IF ing.amount \notin {NoAmount, Amount(0)} /\ ing.unit \notin {None, ""}
                    THEN FullLine(ing)
                    ELSE ing.name

\* Two ingredients: amount 0 with a unit gives the bare name, 2.5 cups of
\* flour gives the full line, in that order.
C20_Witness ==
    /\ step = "formatted"
    /\ Len(request.missingIngredients) = 2
    /\ request.missingIngredients[1].amount = Amount(0)
    /\ request.missingIngredients[1].unit = "cups"
    /\ formatted_ingredients = <<"eggs", "2.5 cups flour">>

\* The message bodies handed to a delivery gateway so far.
DeliveredBodies ==
    {invoked[i].text : i \in {j \in DOMAIN invoked :
        invoked[j].name \in {"send_telegram_message", "send_sendgrid_email"}}}

\* The first and the last lines of every message body.
BodyHead == "Shopping List for: " \o request.recipeTitle \o "\n\n"
BodyFoot == "\n\nHappy cooking!\nSent via Recipe Suggester"

\* The items section: its header and one bullet per formatted line.
ItemsSection(lines) ==
    "Items you need:\n" \o join("\n", [i \in DOMAIN lines |-> "- " \o lines[i]])

(* C21: in send-list, when missingIngredients is empty the message body    *)
(* handed to the delivery gateway is the title, the "you have all the      *)
(* ingredients" line and the closing lines, with no "Items you need"       *)
(* header and no bullet; when it is not empty the body is the title, the   *)
(* items section with one bullet per ingredient and the closing lines,     *)
(* without that line.                                                      *)
C21_SentinelOrItemsSection ==
    request.endpoint = "send-list" =>
        \A body \in DeliveredBodies :
            IF request.missingIngredients = <<>>
            THEN body = BodyHead
                            \o "Good news! You have all the ingredients needed for this recipe."
                            \o BodyFoot
            ELSE /\ Len(formatted_ingredients) = Len(request.missingIngredients)
                 /\ body = BodyHead \o ItemsSection(formatted_ingredients) \o BodyFoot

\* An empty list was delivered by e-mail.
C21_Witness ==
    /\ Responded("send-list")
    /\ request.missingIngredients = <<>>
    /\ request.deliveryMethod = "email"
    /\ DeliveredBodies =
           {"Shopping List for: Plain Rice\n\nGood news! You have all the ingredients needed for this recipe.\n\nHappy cooking!\nSent via Recipe Suggester"}

\* The recipe-detail call succeeded with a well-formed ingredient list, the
\* empty list included.
WellFormedIngredientList ==
    /\ Responded("get-missing-ingredients")
    /\ api_result # NoResult
    /\ api_result.error = None
    /\ api_result.data \in {"dict_ext_valid:SpoonacularIngredient",
                            "dict_ext_empty:SpoonacularIngredient"}

\* The ingredient list the provider sent.
SentIngredients ==
    IF api_result.data = "dict_ext_valid:SpoonacularIngredient" THEN RecipeIngredients ELSE <<>>

(* C26, as claimed: in get-missing-ingredients, whenever the recipe-detail *)
(* call succeeds with a well-formed ingredient list, a present but empty   *)
(* list included, the response has isEstimate = false, error = null and    *)
(* missingIngredients equal to the Ingredient Matcher's result with every  *)
(* entry is_estimate = false, and the Fallback Generator is not invoked.   *)
C26_ExactWhenDetailsWellFormed ==
    WellFormedIngredientList =>
        /\ http_response.status_code = 200
        /\ http_response.body.isEstimate = FALSE
        /\ http_response.body.error = None
        /\ http_response.body.missingIngredients =
               List(missing_ingredient_details(
                        find_missing_ingredients(SentIngredients, request.userIngredients)))
        /\ \A i \in DOMAIN http_response.body.missingIngredients.items :
             http_response.body.missingIngredients.items[i].is_estimate = FALSE
        /\ Count("generate_fallback_ingredients") = 0
        /\ Count("find_missing_ingredients") = 1

\* string.punctuation (without the backquote, which no TLA+ string holds)
Punctuation ==
    {"!", "\"", "#", "$", "%", "&", "'", "(", ")", "*", "+", ",", "-", ".", "/", ":", ";",
     "<", "=", ">", "?", "@", "[", "\\", "]", "^", "_", "{", "|", "}", "~"}

\* The words of s: its maximal runs of characters that are not whitespace.
RECURSIVE Words(_)
Words(s) ==
    IF s = <<>> THEN <<>>
    ELSE IF is_space(Head(s)) THEN Words(Tail(s))
    ELSE LET ends == {i \in 1..Len(s) : i = Len(s) \/ is_space(s[i + 1])}
             end == CHOOSE i \in ends : \A j \in ends : i <= j
         IN <<SubSeq(s, 1, end)>> \o Words(SubSeq(s, end + 1, Len(s)))

\* The words of s with one blank between two of them.
RECURSIVE Spaced(_)
Spaced(words) ==
    IF words = <<>> THEN <<>>
    ELSE IF Len(words) = 1 THEN words[1]
    ELSE words[1] \o <<" ">> \o Spaced(Tail(words))

\* The reference of normalize: lowercase, delete the characters of
\* `deleted`, collapse the whitespace and trim, strip a trailing "es", else
\* a trailing "s".
ReferenceNormalize(name, deleted) ==
    IF NotStr(name) THEN <<>>
    ELSE LET clean == Spaced(Words(SelectSeq(lower(name.chars),
                                             LAMBDA c : c \notin deleted)))
             n == Len(clean)
         IN IF n >= 2 /\ clean[n - 1] = "e" /\ clean[n] = "s" THEN SubSeq(clean, 1, n - 2)
            ELSE IF n >= 1 /\ clean[n] = "s" THEN SubSeq(clean, 1, n - 1)
            ELSE clean

\* s with the character c put in after its first i characters
Inserted(s, i, c) == SubSeq(s, 1, i) \o <<c>> \o SubSeq(s, i + 1, Len(s))

\* str.upper() of one character
upper(c) ==
    IF \E k \in DOMAIN ascii_lowercase : ascii_lowercase[k] = c
    THEN ascii_uppercase[CHOOSE k \in DOMAIN ascii_lowercase : ascii_lowercase[k] = c]
    ELSE c

\* Names that differ from s in the case of one letter.
CaseVariants(s) == {[s EXCEPT ![i] = upper(s[i])] : i \in DOMAIN s} \cup {lower(s)}

\* Names that differ from s in one more character of `marks`.
MarkVariants(s, marks) == {Inserted(s, i, m) : i \in 0..Len(s), m \in marks}

\* Names that differ from s in one more blank at an end or in a run of
\* whitespace.
WhitespaceVariants(s) ==
    {<<" ">> \o s, s \o <<" ">>}
        \cup {Inserted(s, i, " ") : i \in {j \in DOMAIN s : is_space(s[j])}}

PluralStripped(s) == is_word(s[Len(s)]) /\ lower(<<s[Len(s)]>>) \notin {<<"e">>, <<"s">>}

Inside(a, b) == \E i \in 0..Len(b) : \E j \in i..Len(b) : SubSeq(b, i + 1, j) = a

\* The entries of a list that have a name.
Named(entry) == entry # Null /\ entry # Chars(<<>>)
NamedIngredient(req) == req # Null /\ req.name # Null /\ req.name # Chars(<<>>)

\* The normalized names of the owned list.
OwnedNames ==
    {normalize_ingredient(request.user_ingredients[i]) :
        i \in {j \in DOMAIN request.user_ingredients : Named(request.user_ingredients[j])}}

\* The required ingredient's normalized name equals, is inside or holds one
\* of `names`.
Satisfied(req, names) ==
    \E o \in names :
        \/ Inside(normalize_ingredient(req.name), o)
        \/ Inside(o, normalize_ingredient(req.name))

\* sub is what is left of seq when some of its entries are taken out.
RECURSIVE IsSubsequence(_, _)
IsSubsequence(sub, seq) ==
    IF sub = <<>> THEN TRUE
    ELSE IF seq = <<>> THEN FALSE
    ELSE IF Head(sub) = Head(seq) THEN IsSubsequence(Tail(sub), Tail(seq))
    ELSE IsSubsequence(sub, Tail(seq))

\* The positions of the required list whose entry is named and not
\* satisfied by `names`.
Unsatisfied(names) ==
    {i \in DOMAIN request.required_ingredients :
        /\ NamedIngredient(request.required_ingredients[i])
        /\ ~Satisfied(request.required_ingredients[i], names)}

(* C23, as claimed: findMissing(required, owned) returns exactly the       *)
(* required ingredients that are not satisfied, in the order of the        *)
(* required list (a subsequence of it), where a required ingredient is     *)
(* satisfied iff its normalized name equals, is a substring of, or         *)
(* contains some owned normalized name; so wherever one normalized string  *)
(* is a substring of the other the required ingredient is left out.        *)
C23_Original ==
    step = "matched" =>
        /\ IsSubsequence(api_result.value, request.required_ingredients)
        /\ Len(api_result.value) = Cardinality(Unsatisfied(OwnedNames))
        /\ \A k \in DOMAIN api_result.value :
             /\ NamedIngredient(api_result.value[k])
             /\ ~Satisfied(api_result.value[k], OwnedNames)

(* C23, amended: findMissing(required, owned) returns exactly the required *)
(* ingredients whose normalized name is not empty and that are not         *)
(* satisfied, in the order of the required list (a subsequence of it),     *)
(* where a required ingredient is satisfied iff its normalized name        *)
(* equals, is a substring of, or contains some owned normalized name that  *)
(* is not empty.                                                           *)
C23_UnsatisfiedInOrder ==
    step = "matched" =>
        LET names == OwnedNames \ {<<>>}
            kept == {i \in Unsatisfied(names) :
                        normalize_ingredient(request.required_ingredients[i].name) # <<>>}
        IN /\ IsSubsequence(api_result.value, request.required_ingredients)
           /\ Len(api_result.value) = Cardinality(kept)
           /\ \A k \in DOMAIN api_result.value :
                /\ NamedIngredient(api_result.value[k])
                /\ normalize_ingredient(api_result.value[k].name) # <<>>
                /\ ~Satisfied(api_result.value[k], names)

\* "red onion" and "salt" are required and "onion" is owned: the owned name
\* is inside the first required name, and "salt" alone is returned.
C23_Witness ==
    /\ step = "matched"
    /\ request.required_ingredients =
           <<SpoonacularIngredient(1, 10, "", Chars(<<"r", "e", "d", " ", "o", "n", "i", "o", "n">>)),
             SpoonacularIngredient(1, 10, "", Chars(<<"s", "a", "l", "t">>))>>
    /\ request.user_ingredients = <<Chars(<<"o", "n", "i", "o", "n">>)>>
    /\ api_result.value = <<SpoonacularIngredient(1, 10, "", Chars(<<"s", "a", "l", "t">>))>>

(* C24, as claimed: findMissing([], owned) returns [] for every owned      *)
(* list, and findMissing(required, []) returns every entry of required     *)
(* that has a non-empty name, names made only of punctuation or only of a  *)
(* plural suffix included; entries that are null or without a name, in     *)
(* either list, are skipped and never cause a failure.                     *)
C24_Original ==
    step = "matched" =>
        /\ api_result.kind = "returned"
        /\ request.required_ingredients = <<>> => api_result.value = <<>>
        /\ request.user_ingredients = <<>> =>
             api_result.value = SelectSeq(request.required_ingredients, NamedIngredient)
        /\ \A k \in DOMAIN api_result.value : NamedIngredient(api_result.value[k])

\* The required entry has a name that does not normalize to nothing.
NormalizedName(req) == NamedIngredient(req) /\ normalize_ingredient(req.name) # <<>>

(* C24, amended: findMissing([], owned) returns [] for every owned list,   *)
(* and findMissing(required, []) returns every entry of required whose     *)
(* normalized name is not empty (a name made only of punctuation or only   *)
(* of a plural suffix is passed over); entries that are null or without a  *)
(* name, in either list, are skipped and never cause a failure, and with   *)
(* only such entries owned every such required entry is returned.          *)
C24_EmptyListsAndEntries ==
    step = "matched" =>
        /\ api_result.kind = "returned"
        /\ request.required_ingredients = <<>> => api_result.value = <<>>
        /\ (\A i \in DOMAIN request.user_ingredients : ~Named(request.user_ingredients[i])) =>
             api_result.value = SelectSeq(request.required_ingredients, NormalizedName)
        /\ \A k \in DOMAIN api_result.value : NormalizedName(api_result.value[k])

\* Nothing is owned; of "es" and "Onions" only "Onions" is returned.
C24_Witness ==
    /\ step = "matched"
    /\ request.user_ingredients = <<>>
    /\ request.required_ingredients =
           <<SpoonacularIngredient(1, 10, "", Chars(<<"e", "s">>)),
             SpoonacularIngredient(1, 10, "", Chars(<<"O", "n", "i", "o", "n", "s">>))>>
    /\ api_result.value = <<SpoonacularIngredient(1, 10, "", Chars(<<"O", "n", "i", "o", "n", "s">>))>>

\* The title in lower case; nothing for the null title.
LowerTitle == IF request.recipe_title = Null THEN <<>> ELSE lower(request.recipe_title.chars)

\* One of `keywords` is in the title, whatever its case.
Matches(keywords) == \E k \in keywords : Inside(k, LowerTitle)

\* The additions of the first category that matches, in the order
\* pasta family, chicken, salad, soup.
FirstCategoryAdditions ==
    IF Matches({<<"p", "a", "s", "t", "a">>, <<"s", "p", "a", "g", "h", "e", "t", "t", "i">>,
                <<"l", "a", "s", "a", "g", "n", "a">>, <<"m", "a", "c", "a", "r", "o", "n", "i">>})
    THEN <<"(Estimate) Pasta", "(Estimate) Tomato Sauce">>
    ELSE IF Matches({<<"c", "h", "i", "c", "k", "e", "n">>}) THEN <<"(Estimate) Chicken">>
    ELSE IF Matches({<<"s", "a", "l", "a", "d">>})
    THEN <<"(Estimate) Lettuce", "(Estimate) Vinaigrette">>
    ELSE IF Matches({<<"s", "o", "u", "p">>}) THEN <<"(Estimate) Broth">>
    ELSE <<>>

(* C25: generate(recipeTitle) is a function of the title that returns the  *)
(* three base estimates (salt, pepper, cooking oil) followed by the        *)
(* additions of at most one category, the first that matches whatever the  *)
(* case in the order pasta family, chicken, salad, soup, every item        *)
(* flagged is_estimate; a title without keyword, the empty and the null    *)
(* title included, gets exactly the three base estimates.                  *)
C25_BaseThenFirstCategory ==
    step = "generated" =>
        LET items == api_result.value
        IN /\ [i \in DOMAIN items |-> items[i].name]
                  = <<"(Estimate) Salt", "(Estimate) Pepper", "(Estimate) Cooking Oil">>
                        \o FirstCategoryAdditions
           /\ \A i \in DOMAIN items : items[i].is_estimate = TRUE
           /\ items = generate_fallback_ingredients(request.recipe_title)
           /\ request.recipe_title # Null =>
                items = generate_fallback_ingredients(Chars(LowerTitle))

\* "Chicken Alfredo Pasta" gets the pasta additions and no chicken.
C25_Witness ==
    /\ step = "generated"
    /\ request.recipe_title = Chars(<<"C", "h", "i", "c", "k", "e", "n", " ", "A", "l", "f", "r", "e", "d", "o", " ", "P", "a", "s", "t", "a">>)
    /\ Len(api_result.value) = 5
    /\ api_result.value[4].name = "(Estimate) Pasta"
    /\ api_result.value[5].name = "(Estimate) Tomato Sauce"

====
